---------------------------- MODULE Spec2Model ----------------------------
(* The ABI codec of smart-contract-wrapper (the vendored ethers-abi):      *)
(* AbiCoder (encode / decode / getDefaultValue and the coder dispatcher),  *)
(* the scalar coders NumberCoder, AddressCoder, FixedBytesCoder, the       *)
(* StringCoder, and the Writer / Reader / TupleCoder / ArrayCoder they     *)
(* rest on; and, of the wrapper itself, the sending of a transaction with *)
(* its nonce retry and receipt timeout (types.ts), the reading of event    *)
(* logs (events.ts, contract.ts), the output helpers (utils.ts) and the    *)
(* WebSocket provider (rpc-provider-ws.ts).                                *)
(*                                                                         *)
(* Representation.  A byte sequence is a sequence over 0..255.  A BigInt   *)
(* is a record [neg, mag]: a sign and a big-endian magnitude of BigLen     *)
(* bytes, so that 2^256 and -2^255-1 are values of the model.  A type name *)
(* is a sequence of one-character strings.  An error is a record           *)
(* [code, message]; NoError is the absence of one.                         *)
EXTENDS Integers, Sequences, FiniteSets, TLC

VARIABLES
    defaultMaxInflation,  \* module variable, AbiCoder file
    defaultCoder,         \* module variable: "null" or "AbiCoder"
    call,                 \* the call under way: its operation, arguments,
                          \* locals and what it talks to; for the
                          \* WebSocket provider, the provider object
    ret,                  \* what the call returned or threw
    pc                    \* "call": not yet run; "done" (or, for decode,
                          \* "strict" / "loose"): returned; "again": run
                          \* once, to be run a second time; "nonce",
                          \* "send", "resend", "poll", "pause", "count":
                          \* where sendTransaction stands

vars == <<defaultMaxInflation, defaultCoder, call, ret, pc>>

WordSize == 32

-----------------------------------------------------------------------------
(* Errors *)

NoError == [code |-> "NONE", message |-> ""]

\* makeError(message, code, info)
makeError(message, code) == [code |-> code, message |-> message]

\* assert(check, message, code, info): the error thrown, or NoError
assert(check, message, code) ==
    IF ~check THEN makeError(message, code) ELSE NoError

\* assertArgument(check, message, name, value)
assertArgument(check, message) == assert(check, message, "INVALID_ARGUMENT")

\* the mutant of assertArgumentCount that forgets the "too many" half
assertArgumentCount_noUpper(count, expectedCount, message) ==
    assert(count >= expectedCount, "missing argument: " \o message, "MISSING_ARGUMENT")

\* assertArgumentCount(count, expectedCount, message): the first failing
\* assertion throws
assertArgumentCount(count, expectedCount, message) ==
    LET missing == assert(count >= expectedCount,
                          "missing argument: " \o message, "MISSING_ARGUMENT")
        tooMany == assert(count <= expectedCount,
                          "too many arguments: " \o message, "UNEXPECTED_ARGUMENT")
    IN  IF missing # NoError THEN missing ELSE tooMany

-----------------------------------------------------------------------------
(* Bytes *)

Byte == 0..255

Zeros(n) == [i \in 1..n |-> 0]

Ones(n) == [i \in 1..n |-> 255]

Max(a, b) == IF a >= b THEN a ELSE b

Min(a, b) == IF a <= b THEN a ELSE b

\* 2^k for the small k the model needs (k < 31)
RECURSIVE Pow2(_)
Pow2(k) == IF k = 0 THEN 1 ELSE 2 * Pow2(k - 1)

\* v shifted right by 8k bits (v >> 8k), v >= 0
RECURSIVE Shr8(_, _)
Shr8(v, k) == IF k = 0 \/ v = 0 THEN v ELSE Shr8(v \div 256, k - 1)

\* toBeArray(v) left-padded to n bytes: the big-endian bytes of v >= 0
toBeBytes(v, n) == [i \in 1..n |-> Shr8(v, n - i) % 256]

\* the number a short big-endian byte sequence stands for
RECURSIVE toNumber(_)
toNumber(b) ==
    IF b = <<>> THEN 0
    ELSE 256 * toNumber(SubSeq(b, 1, Len(b) - 1)) + b[Len(b)]

\* a < b for two byte sequences of one length, as big-endian numbers
RECURSIVE BytesLt(_, _)
BytesLt(a, b) ==
    IF a = <<>> THEN FALSE
    ELSE IF a[1] # b[1] THEN a[1] < b[1]
    ELSE BytesLt(Tail(a), Tail(b))

\* b + 1 over Len(b) bytes (wrapping)
RECURSIVE BytesInc(_)
BytesInc(b) ==
    IF b = <<>> THEN <<>>
    ELSE LET n == Len(b) IN
         IF b[n] < 255 THEN [b EXCEPT ![n] = b[n] + 1]
         ELSE Append(BytesInc(SubSeq(b, 1, n - 1)), 0)

\* ~b, byte by byte
BytesNot(b) == [i \in 1..Len(b) |-> 255 - b[i]]

\* number of bytes after the leading zero bytes
RECURSIVE SignificantLen(_)
SignificantLen(b) ==
    IF b = <<>> THEN 0
    ELSE IF b[1] # 0 THEN Len(b)
    ELSE SignificantLen(Tail(b))

-----------------------------------------------------------------------------
(* BigInt: [neg, mag], mag of BigLen bytes; zero is never negative *)

BigLen == WordSize + 1

Big(neg, mag) == [neg |-> neg /\ mag # Zeros(BigLen), mag |-> mag]

BigOfInt(i) == Big(i < 0, toBeBytes(IF i < 0 THEN -i ELSE i, BigLen))

\* the BigInt of a byte sequence of at most BigLen bytes (toBigInt)
BigOfBytes(b) == Big(FALSE, Zeros(BigLen - Len(b)) \o b)

BN_0 == BigOfInt(0)

BN_1 == BigOfInt(1)

BN_MAX_UINT256 == BigOfBytes(Ones(WordSize))

BigNegate(x) == Big(~x.neg, x.mag)

\* x < y
BigLt(x, y) ==
    IF x.neg # y.neg THEN x.neg
    ELSE IF x.neg THEN BytesLt(y.mag, x.mag)
    ELSE BytesLt(x.mag, y.mag)

BigGt(x, y) == BigLt(y, x)

\* x + 1
BigInc(x) ==
    IF ~x.neg THEN Big(FALSE, BytesInc(x.mag))
    ELSE Big(TRUE, BytesNot(BytesInc(BytesNot(x.mag))))

\* mask(value, bits) == value & ((1 << bits) - 1), value >= 0
mask(value, bits) ==
    Big(FALSE,
        [i \in 1..BigLen |->
            LET lo == 8 * (BigLen - i)   \* the lowest bit this byte holds
            IN  IF lo + 8 <= bits THEN value.mag[i]
                ELSE IF lo >= bits THEN 0
                ELSE value.mag[i] % Pow2(bits - lo)])

\* toTwos(value, width): for a negative value ((~(-value)) & mask) + 1
toTwos(value, width) ==
    IF value.neg
    THEN BigInc(mask(Big(FALSE, BytesNot(value.mag)), width))
    ELSE value

\* fromTwos(value, width): if (value >> (width - 1)) then
\* -(((~value) & mask) + 1) else value
fromTwos(value, width) ==
    LET top == BigLen - ((width - 1) \div 8)
    IN  IF value.mag[top] >= Pow2((width - 1) % 8)
        THEN BigNegate(BigInc(mask(Big(FALSE, BytesNot(value.mag)), width)))
        ELSE value

-----------------------------------------------------------------------------
(* Writer: an append-only sequence of whole words, held as its bytes *)

Encoded(err, writer) == [err |-> err, writer |-> writer]

\* Writer.writeValue(value): the value as one word, left-padded with zeros;
\* a negative value or one of more than WordSize bytes is refused
Writer_writeValue(writer, value) ==
    IF value.neg \/ SignificantLen(value.mag) > WordSize
    THEN Encoded(makeError("value out-of-bounds", "BUFFER_OVERRUN"), writer)
    ELSE Encoded(NoError, writer \o SubSeq(value.mag, BigLen - WordSize + 1, BigLen))

\* Writer.writeBytes(bytes): the bytes, right-padded with zeros to whole words
Writer_writeBytes(writer, bytes) ==
    LET paddingOffset == Len(bytes) % WordSize
    IN  Encoded(NoError,
                IF paddingOffset # 0
                THEN writer \o bytes \o Zeros(WordSize - paddingOffset)
                ELSE writer \o bytes)

\* Writer.writeUpdatableValue(): a zero placeholder word, patched later
Writer_writeUpdatableValue(writer) == writer \o Zeros(WordSize)

\* the placeholder word at byte offset at (0-based) overwritten with value
Writer_update(writer, at, value) ==
    [i \in 1..Len(writer) |->
        IF i > at /\ i <= at + WordSize
        THEN toBeBytes(value, WordSize)[i - at]
        ELSE writer[i]]

-----------------------------------------------------------------------------
(* Coders.  A coder is a record: its kind, the data of the kind, and the   *)
(* dynamic flag its constructor passes to Coder.                           *)

AddressCoder == [kind |-> "address", dynamic |-> FALSE]

BooleanCoder == [kind |-> "bool", dynamic |-> FALSE]

BytesCoder == [kind |-> "bytes", dynamic |-> TRUE]

StringCoder == [kind |-> "string", dynamic |-> TRUE]

NullCoder == [kind |-> "null", dynamic |-> FALSE]

\* the mutant whose constructor passes true for dynamic
NumberCoder_dynamicFlag(size, signed) ==
    [kind |-> "number", size |-> size, signed |-> signed, dynamic |-> TRUE]

NumberCoder(size, signed) ==
    [kind |-> "number", size |-> size, signed |-> signed, dynamic |-> FALSE]

FixedBytesCoder(size) == [kind |-> "fixedbytes", size |-> size, dynamic |-> FALSE]

\* new ArrayCoder(coder, length): length -1 is the unbounded array
ArrayCoder(coder, length) ==
    [kind |-> "array", coder |-> coder, length |-> length,
     dynamic |-> (length = -1 \/ coder.dynamic)]

\* new TupleCoder(coders)
TupleCoder(coders) ==
    [kind |-> "tuple", coders |-> coders,
     dynamic |-> (\E i \in 1..Len(coders) : coders[i].dynamic)]

\* Coder._throwError(message, value)
Coder_throwError(message) == makeError(message, "INVALID_ARGUMENT")

-----------------------------------------------------------------------------
(* NumberCoder *)

\* a JavaScript number that is an integer
Number(i) == [number |-> i]

\* getBigInt(value): the BigInt of a number or of a BigInt
getBigInt(value) ==
    IF "number" \in DOMAIN value THEN BigOfInt(value.number) ELSE value

\* return 0: the number, not the BigInt
NumberCoder_defaultValue(coder) == Number(0)

\* the mutant of the bounds check: off by one at the upper bounds
NumberCoder_outOfBounds_offByOne(coder, value) ==
    LET maxUintValue == mask(BN_MAX_UINT256, WordSize * 8) IN
    IF coder.signed
    THEN LET bounds == mask(maxUintValue, (coder.size * 8) - 1)
         IN  BigGt(value, BigInc(bounds)) \/ BigLt(value, BigNegate(BigInc(bounds)))
    ELSE BigLt(value, BN_0) \/ BigGt(value, BigInc(mask(maxUintValue, coder.size * 8)))

\* the bounds check of NumberCoder.encode
NumberCoder_outOfBounds(coder, value) ==
    LET maxUintValue == mask(BN_MAX_UINT256, WordSize * 8) IN
    IF coder.signed
    THEN LET bounds == mask(maxUintValue, (coder.size * 8) - 1)
         IN  BigGt(value, bounds) \/ BigLt(value, BigNegate(BigInc(bounds)))
    ELSE BigLt(value, BN_0) \/ BigGt(value, mask(maxUintValue, coder.size * 8))

\* the mutant that takes the two's complement over the declared width only
NumberCoder_encode_narrowTwos(coder, writer, _value) ==
    LET value == getBigInt(_value) IN
    IF NumberCoder_outOfBounds(coder, value)
    THEN Encoded(Coder_throwError("value out-of-bounds"), writer)
    ELSE Writer_writeValue(writer,
            IF coder.signed THEN toTwos(value, 8 * coder.size) ELSE value)

NumberCoder_encode(coder, writer, _value) ==
    LET value == getBigInt(_value) IN
    IF NumberCoder_outOfBounds(coder, value)
    THEN Encoded(Coder_throwError("value out-of-bounds"), writer)
    ELSE Writer_writeValue(writer,
            IF coder.signed THEN toTwos(value, 8 * WordSize) ELSE value)

-----------------------------------------------------------------------------
(* Addresses.  An address string is [bytes, form]: the bytes its hex       *)
(* digits stand for and the case of the digits ("lower", "upper",          *)
(* "checksum", or "mixed": mixed case that is not the checksum case).      *)
(* The zero address has no letters: it is written in form "checksum".      *)

AddressLen == 20

\* getAddress(address): the checksum-case address, or the error
getAddress(address) ==
    IF Len(address.bytes) # AddressLen
    THEN [err |-> makeError("invalid address", "INVALID_ARGUMENT"), value |-> address]
    ELSE IF address.form = "mixed"
    THEN [err |-> makeError("bad address checksum", "INVALID_ARGUMENT"), value |-> address]
    ELSE [err |-> NoError, value |-> [bytes |-> address.bytes, form |-> "checksum"]]

AddressCoder_defaultValue == [bytes |-> Zeros(AddressLen), form |-> "checksum"]

AddressCoder_encode(writer, value) ==
    LET canonical == getAddress(value) IN
    IF canonical.err # NoError
    THEN Encoded(Coder_throwError(canonical.err.message), writer)
    ELSE Writer_writeValue(writer, BigOfBytes(canonical.value.bytes))

-----------------------------------------------------------------------------
(* FixedBytesCoder *)

\* the mutant that forgets the two characters of "0x"
FixedBytesCoder_defaultValue_short(coder) == SubSeq(Zeros(WordSize), 1, coder.size - 1)

\* "0x00..00".substring(0, 2 + size * 2): size zero bytes
FixedBytesCoder_defaultValue(coder) == SubSeq(Zeros(WordSize), 1, coder.size)

\* the mutant that accepts an input shorter than the declared size
FixedBytesCoder_encode_acceptShort(coder, writer, value) ==
    IF Len(value) > coder.size
    THEN Encoded(Coder_throwError("incorrect data length"), writer)
    ELSE Writer_writeBytes(writer, value)

\* the mutant that writes the bytes as a number: right-aligned
FixedBytesCoder_encode_rightAligned(coder, writer, value) ==
    IF Len(value) # coder.size
    THEN Encoded(Coder_throwError("incorrect data length"), writer)
    ELSE Writer_writeValue(writer, BigOfBytes(value))

FixedBytesCoder_encode(coder, writer, value) ==
    IF Len(value) # coder.size
    THEN Encoded(Coder_throwError("incorrect data length"), writer)
    ELSE Writer_writeBytes(writer, value)

-----------------------------------------------------------------------------
(* BooleanCoder, NullCoder *)

BooleanCoder_defaultValue == FALSE

BooleanCoder_encode(writer, value) ==
    Writer_writeValue(writer, IF value THEN BN_1 ELSE BN_0)

Null == "null"

NullCoder_defaultValue == Null

NullCoder_encode(writer, value) ==
    IF value # Null
    THEN Encoded(Coder_throwError("not null"), writer)
    ELSE Writer_writeBytes(writer, <<>>)

-----------------------------------------------------------------------------
(* DynamicBytesCoder, BytesCoder, StringCoder.  A string is the sequence   *)
(* of its code points (below 0x800 in this model).                         *)

\* DynamicBytesCoder.encode: a length word, then the bytes padded to words
DynamicBytesCoder_encode(writer, value) ==
    LET len == Writer_writeValue(writer, BigOfInt(Len(value)))
    IN  Writer_writeBytes(len.writer, value)

BytesCoder_defaultValue == <<>>

\* toUtf8Bytes(str)
RECURSIVE toUtf8Bytes(_)
toUtf8Bytes(str) ==
    IF str = <<>> THEN <<>>
    ELSE LET c == Head(str) IN
         (IF c < 128 THEN <<c>>
          ELSE <<192 + (c \div 64), 128 + (c % 64)>>) \o toUtf8Bytes(Tail(str))

StringCoder_defaultValue == <<>>

StringCoder_encode(writer, value) == DynamicBytesCoder_encode(writer, toUtf8Bytes(value))

-----------------------------------------------------------------------------
(* Encoding: Coder.encode by kind, TupleCoder / ArrayCoder through pack *)

RECURSIVE Coder_encode(_, _, _)
RECURSIVE packLoop(_, _, _, _, _, _)

\* pack(writer, coders, values): the head/tail scheme.  Static children are
\* encoded into the head (staticWriter); a dynamic child is encoded into the
\* tail (dynamicWriter) and leaves a placeholder word in the head, patched
\* at the end with head length + the offset of its segment in the tail.
\* updates is the list of <<placeholder position, dynamicOffset>>.
packLoop(coders, values, index, staticWriter, dynamicWriter, updates) ==
    IF index > Len(coders)
    THEN [err |-> NoError, staticWriter |-> staticWriter,
          dynamicWriter |-> dynamicWriter, updates |-> updates]
    ELSE LET coder == coders[index]
             value == values[index]
         IN  IF coder.dynamic
             THEN LET dynamicOffset == Len(dynamicWriter)
                      enc == Coder_encode(coder, dynamicWriter, value)
                  IN  IF enc.err # NoError
                      THEN [err |-> enc.err, staticWriter |-> staticWriter,
                            dynamicWriter |-> dynamicWriter, updates |-> updates]
                      ELSE packLoop(coders, values, index + 1,
                                    Writer_writeUpdatableValue(staticWriter),
                                    enc.writer,
                                    Append(updates, <<Len(staticWriter), dynamicOffset>>))
             ELSE LET enc == Coder_encode(coder, staticWriter, value)
                  IN  IF enc.err # NoError
                      THEN [err |-> enc.err, staticWriter |-> staticWriter,
                            dynamicWriter |-> dynamicWriter, updates |-> updates]
                      ELSE packLoop(coders, values, index + 1, enc.writer,
                                    dynamicWriter, updates)

\* the placeholders of the head patched: updateFuncs.forEach(f => f(staticWriter.length))
RECURSIVE applyUpdates(_, _, _)
applyUpdates(staticWriter, updates, baseOffset) ==
    IF updates = <<>> THEN staticWriter
    ELSE applyUpdates(
            Writer_update(staticWriter, Head(updates)[1], baseOffset + Head(updates)[2]),
            Tail(updates), baseOffset)

\* the mutant of pack that counts offsets from the start of the tail
pack_offsetFromTail(writer, coders, values) ==
    LET lenErr == assertArgument(Len(coders) = Len(values), "types/value length mismatch")
    IN  IF lenErr # NoError THEN Encoded(lenErr, writer)
        ELSE LET p == packLoop(coders, values, 1, <<>>, <<>>, <<>>)
             IN  IF p.err # NoError THEN Encoded(p.err, writer)
                 ELSE Encoded(NoError,
                        writer \o applyUpdates(p.staticWriter, p.updates, 0)
                               \o p.dynamicWriter)

pack(writer, coders, values) ==
    LET lenErr == assertArgument(Len(coders) = Len(values), "types/value length mismatch")
    IN  IF lenErr # NoError THEN Encoded(lenErr, writer)
        ELSE LET p == packLoop(coders, values, 1, <<>>, <<>>, <<>>)
             IN  IF p.err # NoError THEN Encoded(p.err, writer)
                 ELSE Encoded(NoError,
                        writer \o applyUpdates(p.staticWriter, p.updates, Len(p.staticWriter))
                               \o p.dynamicWriter)

TupleCoder_encode(coder, writer, value) == pack(writer, coder.coders, value)

\* ArrayCoder.encode: an unbounded array writes its length word first; the
\* elements are packed as the components of a tuple
ArrayCoder_encode(coder, writer, value) ==
    LET count == IF coder.length = -1 THEN Len(value) ELSE coder.length
        lenWord == IF coder.length = -1
                   THEN Writer_writeValue(writer, BigOfInt(Len(value)))
                   ELSE Encoded(NoError, writer)
        countErr == assertArgumentCount(Len(value), count, "coder array")
    IN  IF countErr # NoError THEN Encoded(countErr, writer)
        ELSE pack(lenWord.writer, [i \in 1..Len(value) |-> coder.coder], value)

Coder_encode(coder, writer, value) ==
    CASE coder.kind = "number"     -> NumberCoder_encode(coder, writer, value)
      [] coder.kind = "address"    -> AddressCoder_encode(writer, value)
      [] coder.kind = "bool"       -> BooleanCoder_encode(writer, value)
      [] coder.kind = "fixedbytes" -> FixedBytesCoder_encode(coder, writer, value)
      [] coder.kind = "bytes"      -> DynamicBytesCoder_encode(writer, value)
      [] coder.kind = "string"     -> StringCoder_encode(writer, value)
      [] coder.kind = "null"       -> NullCoder_encode(writer, value)
      [] coder.kind = "array"      -> ArrayCoder_encode(coder, writer, value)
      [] coder.kind = "tuple"      -> TupleCoder_encode(coder, writer, value)

\* Coder.defaultValue by kind
RECURSIVE Coder_defaultValue(_)
Coder_defaultValue(coder) ==
    CASE coder.kind = "number"     -> NumberCoder_defaultValue(coder)
      [] coder.kind = "address"    -> AddressCoder_defaultValue
      [] coder.kind = "bool"       -> BooleanCoder_defaultValue
      [] coder.kind = "fixedbytes" -> FixedBytesCoder_defaultValue(coder)
      [] coder.kind = "bytes"      -> BytesCoder_defaultValue
      [] coder.kind = "string"     -> StringCoder_defaultValue
      [] coder.kind = "null"       -> NullCoder_defaultValue
      [] coder.kind = "array"      ->
            [i \in 1..Max(coder.length, 0) |-> Coder_defaultValue(coder.coder)]
      [] coder.kind = "tuple"      ->
            [i \in 1..Len(coder.coders) |-> Coder_defaultValue(coder.coders[i])]

-----------------------------------------------------------------------------
(* Reader: the data, the start of this reader's view of it (base), the     *)
(* cursor within the view (offset), the loose flag, the inflation factor,  *)
(* and read: the bytes consumed so far by this reader and all the readers  *)
(* made from it (the guard state a sub-reader shares with its parent).     *)
(* extent is the end of the furthest byte range any of them has taken.     *)

Reader(data, loose, maxInflation) ==
    [data |-> data, base |-> 0, offset |-> 0, allowLoose |-> loose,
     maxInflation |-> maxInflation, read |-> 0, extent |-> 0]

Decoded(err, value, reader) == [err |-> err, value |-> value, reader |-> reader]

BufferUnderrun == makeError("data out-of-bounds", "BUFFER_UNDERRUN")

InflationGuardTripped ==
    makeError("compressed ABI data exceeds inflation ratio", "INFLATION_GUARD")

NonZeroPadding == makeError("non-zero padding", "INVALID_PADDING")

InvalidUtf8 == makeError("invalid codepoint", "INVALID_UTF8")

\* a length or offset word too large for any buffer of the model is read as
\* IndexCap, which exceeds maxInflation times every buffer length
IndexCap == Pow2(24)

Remaining(reader) == Len(reader.data) - (reader.base + reader.offset)

\* the bytes at [from + 1, from + length] of the data; a byte past the end
\* reads as zero
Peek(data, from, length) ==
    [i \in 1..length |-> IF from + i <= Len(data) THEN data[from + i] ELSE 0]

\* the mutant of Reader.readBytes that does not check what remains
Reader_readBytes_unchecked(reader, length, tail) ==
    LET alignedLength == ((length + WordSize - 1) \div WordSize) * WordSize
        pos == reader.base + reader.offset
    IN  Decoded(NoError, Peek(reader.data, pos, length),
                [reader EXCEPT !.offset = @ + alignedLength,
                               !.read = @ + length,
                               !.extent = Max(@, pos + alignedLength)])

\* Reader.readBytes(length): length bytes, the cursor advanced to the next
\* word boundary.  tail marks the content of a dynamic segment, whose
\* padding must be zero unless the reader is loose.
Reader_readBytes(reader, length, tail) ==
    LET alignedLength == ((length + WordSize - 1) \div WordSize) * WordSize
        pos == reader.base + reader.offset
    IN  IF pos + alignedLength > Len(reader.data)
        THEN Decoded(BufferUnderrun, <<>>, reader)
        ELSE IF tail /\ ~reader.allowLoose
                /\ Peek(reader.data, pos + length, alignedLength - length)
                     # Zeros(alignedLength - length)
        THEN Decoded(NonZeroPadding, <<>>, reader)
        ELSE IF reader.read + length > reader.maxInflation * Len(reader.data)
        THEN Decoded(InflationGuardTripped, <<>>, reader)
        ELSE Decoded(NoError, Peek(reader.data, pos, length),
                     [reader EXCEPT !.offset = @ + alignedLength,
                                    !.read = @ + length,
                                    !.extent = Max(@, pos + alignedLength)])

\* Reader.readValue(): one word as a BigInt
Reader_readValue(reader) ==
    LET r == Reader_readBytes(reader, WordSize, FALSE)
    IN  IF r.err # NoError THEN Decoded(r.err, BN_0, reader)
        ELSE Decoded(NoError, BigOfBytes(r.value), r.reader)

\* Reader.readIndex(): one word as a number
Reader_readIndex(reader) ==
    LET r == Reader_readBytes(reader, WordSize, FALSE)
    IN  IF r.err # NoError THEN Decoded(r.err, 0, reader)
        ELSE Decoded(NoError,
                     IF SignificantLen(r.value) > 3 THEN IndexCap
                     ELSE toNumber(SubSeq(r.value, WordSize - 2, WordSize)),
                     r.reader)

\* the mutant of the length check that never trips
Reader_checkLength_never(reader, count, elementSize) == NoError

\* a claimed length that, times its element size, exceeds what remains by
\* more than the inflation factor is refused before anything is built
Reader_checkLength(reader, count, elementSize) ==
    IF count * elementSize > reader.maxInflation * Remaining(reader)
    THEN InflationGuardTripped
    ELSE NoError

\* Reader.subReader(offset): a reader whose view starts offset bytes after
\* the cursor; the offset is validated against what remains
Reader_subReader(reader, offset) ==
    IF offset > Remaining(reader)
    THEN Decoded(BufferUnderrun, <<>>, reader)
    ELSE Decoded(NoError, <<>>,
                 [reader EXCEPT !.base = reader.base + reader.offset + offset,
                                !.offset = 0])

-----------------------------------------------------------------------------
(* Decoding of the leaves *)

\* the mutant of NumberCoder.decode that forgets the sign
NumberCoder_decode_unsigned(coder, reader) ==
    LET r == Reader_readValue(reader)
    IN  IF r.err # NoError THEN r
        ELSE Decoded(NoError, mask(r.value, coder.size * 8), r.reader)

NumberCoder_decode(coder, reader) ==
    LET r == Reader_readValue(reader)
        value == mask(r.value, coder.size * 8)
    IN  IF r.err # NoError THEN r
        ELSE Decoded(NoError,
                     IF coder.signed THEN fromTwos(value, coder.size * 8) ELSE value,
                     r.reader)

\* toBeHex(value, width): the low width bytes, in lower-case hex digits
toBeHex(value, width) ==
    [bytes |-> SubSeq(value.mag, BigLen - width + 1, BigLen), form |-> "lower"]

\* the mutant that returns the hex string as it is, not through getAddress
AddressCoder_decode_noChecksum(reader) ==
    LET r == Reader_readValue(reader)
    IN  IF r.err # NoError THEN r
        ELSE Decoded(NoError, toBeHex(r.value, AddressLen), r.reader)

AddressCoder_decode(reader) ==
    LET r == Reader_readValue(reader)
    IN  IF r.err # NoError THEN r
        ELSE LET a == getAddress(toBeHex(r.value, AddressLen))
             IN  Decoded(a.err, a.value, r.reader)

BooleanCoder_decode(reader) ==
    LET r == Reader_readValue(reader)
    IN  IF r.err # NoError THEN r
        ELSE Decoded(NoError, r.value # BN_0, r.reader)

\* the mutant that takes the bytes without asking whether they are there
FixedBytesCoder_decode_unchecked(coder, reader) ==
    Reader_readBytes_unchecked(reader, coder.size, FALSE)

\* hexlify(reader.readBytes(this.size))
FixedBytesCoder_decode(coder, reader) == Reader_readBytes(reader, coder.size, FALSE)

NullCoder_decode(reader) ==
    LET r == Reader_readBytes(reader, 0, FALSE)
    IN  Decoded(r.err, Null, r.reader)

\* DynamicBytesCoder.decode: the length word, then that many bytes
DynamicBytesCoder_decode(reader) ==
    LET len == Reader_readIndex(reader)
    IN  IF len.err # NoError THEN len
        ELSE LET claim == Reader_checkLength(len.reader, len.value, 1)
             IN  IF claim # NoError THEN Decoded(claim, <<>>, len.reader)
                 ELSE Reader_readBytes(len.reader, len.value, TRUE)

\* toUtf8String(bytes): [err, value]; the model's strings hold code points
\* below 0x800, so a lead byte of a longer sequence never starts a valid one
RECURSIVE toUtf8String(_)
toUtf8String(bytes) ==
    IF bytes = <<>> THEN [err |-> NoError, value |-> <<>>]
    ELSE LET c == Head(bytes) IN
         IF c < 128
         THEN LET rest == toUtf8String(Tail(bytes))
              IN  [err |-> rest.err, value |-> <<c>> \o rest.value]
         ELSE IF c >= 194 /\ c <= 223 /\ Len(bytes) >= 2
                 /\ bytes[2] >= 128 /\ bytes[2] <= 191
         THEN LET rest == toUtf8String(SubSeq(bytes, 3, Len(bytes)))
              IN  [err |-> rest.err,
                   value |-> <<(c - 192) * 64 + (bytes[2] - 128)>> \o rest.value]
         ELSE [err |-> InvalidUtf8, value |-> <<>>]

StringCoder_decode(reader) ==
    LET r == DynamicBytesCoder_decode(reader)
    IN  IF r.err # NoError THEN r
        ELSE LET str == toUtf8String(r.value)
             IN  Decoded(str.err, str.value, r.reader)

-----------------------------------------------------------------------------
(* Decoding: Coder.decode by kind, TupleCoder / ArrayCoder through unpack *)

RECURSIVE Coder_decode(_, _)
RECURSIVE unpackLoop(_, _, _, _, _)

\* unpack(reader, coders): one head slot per coder.  A static child is
\* decoded in place; the slot of a dynamic child is an offset from the start
\* of the head (baseReader), where a sub-reader decodes it.  values collects
\* the decoded children.
unpackLoop(reader, baseReader, coders, index, values) ==
    IF index > Len(coders) THEN Decoded(NoError, values, reader)
    ELSE LET coder == coders[index] IN
         IF coder.dynamic
         THEN LET offset == Reader_readIndex(reader)
              IN  IF offset.err # NoError THEN Decoded(offset.err, values, reader)
                  ELSE
                  LET sub == Reader_subReader(
                                [baseReader EXCEPT !.read = offset.reader.read,
                                                   !.extent = offset.reader.extent],
                                offset.value)
                  IN  IF sub.err # NoError THEN Decoded(sub.err, values, reader)
                      ELSE
                      LET dec == Coder_decode(coder, sub.reader)
                      IN  IF dec.err # NoError THEN Decoded(dec.err, values, reader)
                          ELSE unpackLoop(
                                  [offset.reader EXCEPT !.read = dec.reader.read,
                                                        !.extent = dec.reader.extent],
                                  baseReader, coders, index + 1,
                                  Append(values, dec.value))
         ELSE LET dec == Coder_decode(coder, reader)
              IN  IF dec.err # NoError THEN Decoded(dec.err, values, reader)
                  ELSE unpackLoop(dec.reader, baseReader, coders, index + 1,
                                  Append(values, dec.value))

unpack(reader, coders) ==
    unpackLoop(reader, [reader EXCEPT !.base = reader.base + reader.offset, !.offset = 0],
               coders, 1, <<>>)

TupleCoder_decode(coder, reader) == unpack(reader, coder.coders)

\* ArrayCoder.decode: an unbounded array reads its length word first; the
\* claimed count is checked before the elements are unpacked
ArrayCoder_decode(coder, reader) ==
    IF coder.length # -1
    THEN unpack(reader, [i \in 1..coder.length |-> coder.coder])
    ELSE LET count == Reader_readIndex(reader)
         IN  IF count.err # NoError THEN Decoded(count.err, <<>>, reader)
             ELSE LET claim == Reader_checkLength(count.reader, count.value, WordSize)
                  IN  IF claim # NoError THEN Decoded(claim, <<>>, count.reader)
                      ELSE unpack(count.reader, [i \in 1..count.value |-> coder.coder])

Coder_decode(coder, reader) ==
    CASE coder.kind = "number"     -> NumberCoder_decode(coder, reader)
      [] coder.kind = "address"    -> AddressCoder_decode(reader)
      [] coder.kind = "bool"       -> BooleanCoder_decode(reader)
      [] coder.kind = "fixedbytes" -> FixedBytesCoder_decode(coder, reader)
      [] coder.kind = "bytes"      -> DynamicBytesCoder_decode(reader)
      [] coder.kind = "string"     -> StringCoder_decode(reader)
      [] coder.kind = "null"       -> NullCoder_decode(reader)
      [] coder.kind = "array"      -> ArrayCoder_decode(coder, reader)
      [] coder.kind = "tuple"      -> TupleCoder_decode(coder, reader)

-----------------------------------------------------------------------------
(* Type names and ParamType.  A ParamType is a record: type and baseType   *)
(* (names), and for an array arrayChildren and arrayLength, for a tuple    *)
(* components.                                                             *)

S_uint == <<"u", "i", "n", "t">>

S_int == <<"i", "n", "t">>

S_bytes == <<"b", "y", "t", "e", "s">>

S_address == <<"a", "d", "d", "r", "e", "s", "s">>

S_bool == <<"b", "o", "o", "l">>

S_string == <<"s", "t", "r", "i", "n", "g">>

S_array == <<"a", "r", "r", "a", "y">>

S_tuple == <<"t", "u", "p", "l", "e">>

Digits == {"0", "1", "2", "3", "4", "5", "6", "7", "8", "9"}

DigitValue(d) ==
    CASE d = "0" -> 0 [] d = "1" -> 1 [] d = "2" -> 2 [] d = "3" -> 3 [] d = "4" -> 4
      [] d = "5" -> 5 [] d = "6" -> 6 [] d = "7" -> 7 [] d = "8" -> 8 [] d = "9" -> 9

IsPrefix(p, s) == Len(p) <= Len(s) /\ SubSeq(s, 1, Len(p)) = p

AllDigits(s) == \A i \in 1..Len(s) : s[i] \in Digits

\* a regular expression of the shape ^(prefix)([0-9]*)$ applied to a name:
\* whether it matches, and the digits it captures
MatchPrefixDigits(prefix, name) ==
    LET rest == SubSeq(name, Len(prefix) + 1, Len(name))
    IN  IF IsPrefix(prefix, name) /\ AllDigits(rest)
        THEN [matched |-> TRUE, prefix |-> prefix, digits |-> rest]
        ELSE [matched |-> FALSE, prefix |-> <<>>, digits |-> <<>>]

\* const paramTypeBytes = new RegExp(/^bytes([0-9]*)$/)
paramTypeBytes(name) == MatchPrefixDigits(S_bytes, name)

\* const paramTypeNumber = new RegExp(/^(u?int)([0-9]*)$/)
paramTypeNumber(name) ==
    IF MatchPrefixDigits(S_uint, name).matched
    THEN MatchPrefixDigits(S_uint, name)
    ELSE MatchPrefixDigits(S_int, name)

\* parseInt(digits): the decimal number; NaN for the empty string
RECURSIVE parseDigits(_)
parseDigits(digits) ==
    IF digits = <<>> THEN 0
    ELSE 10 * parseDigits(SubSeq(digits, 1, Len(digits) - 1))
            + DigitValue(digits[Len(digits)])

parseInt(digits) == [nan |-> digits = <<>>, n |-> parseDigits(digits)]

\* a ParamType of a basic type
BasicType(name) == [type |-> name, baseType |-> name]

ArrayType(children, length) ==
    [type |-> S_array, baseType |-> S_array,
     arrayChildren |-> children, arrayLength |-> length]

TupleType(components) ==
    [type |-> S_tuple, baseType |-> S_tuple, components |-> components]

ParamType_isArray(param) == param.baseType = S_array

ParamType_isTuple(param) == param.baseType = S_tuple

-----------------------------------------------------------------------------
(* AbiCoder *)

Coded(err, coder) == [err |-> err, coder |-> coder]

\* the mutant of the number branch that forgets the multiple-of-8 test
getNumberCoder_anyWidth(param, match) ==
    LET size == parseInt(IF match.digits = <<>> THEN <<"2", "5", "6">> ELSE match.digits)
        check == assertArgument(size.n # 0 /\ size.n <= 256,
                                IF match.prefix = S_int THEN "invalid int bit length"
                                ELSE "invalid uint bit length")
    IN  IF check # NoError THEN Coded(check, NullCoder)
        ELSE Coded(NoError, NumberCoder(size.n \div 8, match.prefix = S_int))

\* #getCoder, the branch of u?int[0-9]*
getNumberCoder(param, match) ==
    LET size == parseInt(IF match.digits = <<>> THEN <<"2", "5", "6">> ELSE match.digits)
        check == assertArgument(size.n # 0 /\ size.n <= 256 /\ (size.n % 8) = 0,
                                IF match.prefix = S_int THEN "invalid int bit length"
                                ELSE "invalid uint bit length")
    IN  IF check # NoError THEN Coded(check, NullCoder)
        ELSE Coded(NoError, NumberCoder(size.n \div 8, match.prefix = S_int))

\* #getCoder, the branch of bytes[0-9]+
getFixedBytesCoder(param, match) ==
    LET size == parseInt(match.digits)
        check == assertArgument(~size.nan /\ size.n # 0 /\ size.n <= 32,
                                "invalid bytes length")
    IN  IF check # NoError THEN Coded(check, NullCoder)
        ELSE Coded(NoError, FixedBytesCoder(size.n))

RECURSIVE AbiCoder_getCoder(_)
RECURSIVE getCoders(_, _)

\* params.map((c) => this.#getCoder(c)): the first error is thrown
getCoders(params, index) ==
    IF index > Len(params) THEN [err |-> NoError, coders |-> <<>>]
    ELSE LET c == AbiCoder_getCoder(params[index])
         IN  IF c.err # NoError THEN [err |-> c.err, coders |-> <<>>]
             ELSE LET rest == getCoders(params, index + 1)
                  IN  [err |-> rest.err, coders |-> <<c.coder>> \o rest.coders]

AbiCoder_getCoder(param) ==
    IF ParamType_isArray(param)
    THEN LET child == AbiCoder_getCoder(param.arrayChildren)
         IN  IF child.err # NoError THEN child
             ELSE Coded(NoError, ArrayCoder(child.coder, param.arrayLength))
    ELSE IF ParamType_isTuple(param)
    THEN LET children == getCoders(param.components, 1)
         IN  IF children.err # NoError THEN Coded(children.err, NullCoder)
             ELSE Coded(NoError, TupleCoder(children.coders))
    ELSE IF param.baseType = S_address THEN Coded(NoError, AddressCoder)
    ELSE IF param.baseType = S_bool THEN Coded(NoError, BooleanCoder)
    ELSE IF param.baseType = S_string THEN Coded(NoError, StringCoder)
    ELSE IF param.baseType = S_bytes THEN Coded(NoError, BytesCoder)
    ELSE IF param.baseType = <<>> THEN Coded(NoError, NullCoder)
    ELSE IF paramTypeNumber(param.type).matched
    THEN getNumberCoder(param, paramTypeNumber(param.type))
    ELSE IF paramTypeBytes(param.type).matched
    THEN getFixedBytesCoder(param, paramTypeBytes(param.type))
    ELSE Coded(assertArgument(FALSE, "invalid type"), NullCoder)


\* ParamType.from(type): the type descriptor of a type given by name (and,
\* for arrays and tuples, by structure); a name outside the grammar is refused
RECURSIVE ParamType_from(_)
RECURSIVE ParamType_fromAll(_, _)

ParamType_fromAll(types, index) ==
    IF index > Len(types) THEN [err |-> NoError, params |-> <<>>]
    ELSE LET p == ParamType_from(types[index])
         IN  IF p.err # NoError THEN [err |-> p.err, params |-> <<>>]
             ELSE LET rest == ParamType_fromAll(types, index + 1)
                  IN  [err |-> rest.err, params |-> <<p.param>> \o rest.params]

ParamType_from(type) ==
    IF type.baseType = S_array
    THEN LET child == ParamType_from(type.arrayChildren)
         IN  IF child.err # NoError THEN child
             ELSE [err |-> NoError, param |-> ArrayType(child.param, type.arrayLength)]
    ELSE IF type.baseType = S_tuple
    THEN LET children == ParamType_fromAll(type.components, 1)
         IN  IF children.err # NoError THEN [err |-> children.err, param |-> type]
             ELSE [err |-> NoError, param |-> TupleType(children.params)]
    ELSE LET name == type.type
             num == paramTypeNumber(name)
             byt == paramTypeBytes(name)
             valid ==
                \/ name \in {S_address, S_bool, S_string, S_bytes}
                \/ /\ num.matched
                   /\ \/ num.digits = <<>>
                      \/ LET n == parseDigits(num.digits)
                         IN  n # 0 /\ n <= 256 /\ n % 8 = 0
                \/ /\ byt.matched
                   /\ byt.digits # <<>>
                   /\ LET n == parseDigits(byt.digits) IN n # 0 /\ n <= 32
         IN  [err |-> assertArgument(valid, "invalid type"), param |-> BasicType(name)]

\* types.map((type) => this.#getCoder(ParamType.from(type)))
RECURSIVE AbiCoder_coders(_, _)
AbiCoder_coders(types, index) ==
    IF index > Len(types) THEN [err |-> NoError, coders |-> <<>>]
    ELSE LET p == ParamType_from(types[index])
             c == AbiCoder_getCoder(p.param)
         IN  IF p.err # NoError THEN [err |-> p.err, coders |-> <<>>]
             ELSE IF c.err # NoError THEN [err |-> c.err, coders |-> <<>>]
             ELSE LET rest == AbiCoder_coders(types, index + 1)
                  IN  [err |-> rest.err, coders |-> <<c.coder>> \o rest.coders]

\* what a call of AbiCoder returns or throws: the error, the coders built,
\* the bytes written (encode), the value (decode, getDefaultValue) and the
\* guard state of the reader at the end (decode)
Returned(op, err, coders, data, value, read, extent) ==
    [op |-> op, err |-> err, coders |-> coders, data |-> data, value |-> value,
     read |-> read, extent |-> extent]

NotRun == Returned("none", NoError, <<>>, <<>>, <<>>, 0, 0)

AbiCoder_getDefaultValue(types) ==
    LET c == AbiCoder_coders(types, 1)
    IN  IF c.err # NoError
        THEN Returned("getDefaultValue", c.err, <<>>, <<>>, <<>>, 0, 0)
        ELSE Returned("getDefaultValue", NoError, c.coders, <<>>,
                      Coder_defaultValue(TupleCoder(c.coders)), 0, 0)

\* the mutant of encode that builds the coders before it counts the values
AbiCoder_encode_countLate(types, values) ==
    LET c == AbiCoder_coders(types, 1)
        count == assertArgumentCount(Len(values), Len(types), "types/values length mismatch")
    IN  IF c.err # NoError
        THEN Returned("encode", c.err, <<>>, <<>>, <<>>, 0, 0)
        ELSE IF count # NoError
        THEN Returned("encode", count, <<>>, <<>>, <<>>, 0, 0)
        ELSE LET enc == Coder_encode(TupleCoder(c.coders), <<>>, values)
             IN  IF enc.err # NoError
                 THEN Returned("encode", enc.err, c.coders, <<>>, <<>>, 0, 0)
                 ELSE Returned("encode", NoError, c.coders, enc.writer, <<>>, 0, 0)

\* the mutant of encode that encodes each value with its coder, one after
\* the other, instead of as the components of a tuple
RECURSIVE encodeEach(_, _, _, _)
encodeEach(coders, values, index, writer) ==
    IF index > Len(coders) THEN Encoded(NoError, writer)
    ELSE LET enc == Coder_encode(coders[index], writer, values[index])
         IN  IF enc.err # NoError THEN enc
             ELSE encodeEach(coders, values, index + 1, enc.writer)

AbiCoder_encode_noTuple(types, values) ==
    LET count == assertArgumentCount(Len(values), Len(types), "types/values length mismatch")
        c == AbiCoder_coders(types, 1)
    IN  IF count # NoError
        THEN Returned("encode", count, <<>>, <<>>, <<>>, 0, 0)
        ELSE IF c.err # NoError
        THEN Returned("encode", c.err, <<>>, <<>>, <<>>, 0, 0)
        ELSE LET enc == encodeEach(c.coders, values, 1, <<>>)
             IN  IF enc.err # NoError
                 THEN Returned("encode", enc.err, c.coders, <<>>, <<>>, 0, 0)
                 ELSE Returned("encode", NoError, c.coders, enc.writer, <<>>, 0, 0)

AbiCoder_encode(types, values) ==
    LET count == assertArgumentCount(Len(values), Len(types), "types/values length mismatch")
        c == AbiCoder_coders(types, 1)
    IN  IF count # NoError
        THEN Returned("encode", count, <<>>, <<>>, <<>>, 0, 0)
        ELSE IF c.err # NoError
        THEN Returned("encode", c.err, <<>>, <<>>, <<>>, 0, 0)
        ELSE LET enc == Coder_encode(TupleCoder(c.coders), <<>>, values)
             IN  IF enc.err # NoError
                 THEN Returned("encode", enc.err, c.coders, <<>>, <<>>, 0, 0)
                 ELSE Returned("encode", NoError, c.coders, enc.writer, <<>>, 0, 0)

\* let defaultMaxInflation = 1024
InitialMaxInflation == 1024

\* the mutant of decode that gives the reader the factor the module starts
\* with, whatever _setDefaultMaxInflation has set
AbiCoder_decode_initialFactor(types, data, loose, maxInflation) ==
    LET c == AbiCoder_coders(types, 1)
        dec == Coder_decode(TupleCoder(c.coders), Reader(data, loose, InitialMaxInflation))
    IN  IF c.err # NoError
        THEN Returned("decode", c.err, <<>>, data, <<>>, 0, 0)
        ELSE Returned("decode", dec.err, c.coders, data,
                      IF dec.err # NoError THEN <<>> ELSE dec.value,
                      dec.reader.read, dec.reader.extent)

\* the mutant of decode whose loose reader has no inflation limit to speak of
AbiCoder_decode_looseUnlimited(types, data, loose, maxInflation) ==
    LET c == AbiCoder_coders(types, 1)
        dec == Coder_decode(TupleCoder(c.coders),
                            Reader(data, loose,
                                   IF loose THEN InitialMaxInflation * InitialMaxInflation
                                   ELSE maxInflation))
    IN  IF c.err # NoError
        THEN Returned("decode", c.err, <<>>, data, <<>>, 0, 0)
        ELSE Returned("decode", dec.err, c.coders, data,
                      IF dec.err # NoError THEN <<>> ELSE dec.value,
                      dec.reader.read, dec.reader.extent)

\* decode(types, data, loose), reading the module's defaultMaxInflation
AbiCoder_decode(types, data, loose, maxInflation) ==
    LET c == AbiCoder_coders(types, 1)
    IN  IF c.err # NoError
        THEN Returned("decode", c.err, <<>>, data, <<>>, 0, 0)
        ELSE LET dec == Coder_decode(TupleCoder(c.coders), Reader(data, loose, maxInflation))
             IN  IF dec.err # NoError
                 THEN Returned("decode", dec.err, c.coders, data, <<>>,
                               dec.reader.read, dec.reader.extent)
                 ELSE Returned("decode", NoError, c.coders, data, dec.value,
                               dec.reader.read, dec.reader.extent)

-----------------------------------------------------------------------------
(* The module's variables after load *)

ModuleInit ==
    /\ defaultMaxInflation = InitialMaxInflation
    /\ defaultCoder = "null"
    /\ ret = NotRun
    /\ pc = "call"

-----------------------------------------------------------------------------
(* NumberCoder on its own: every size, both signs, the values around the   *)
(* bounds of the size                                                      *)

\* 2^k as a BigInt, k <= 8 * WordSize
BigPow2(k) ==
    Big(FALSE, [i \in 1..BigLen |-> IF i = BigLen - (k \div 8) THEN Pow2(k % 8) ELSE 0])

BigDec(x) == BigNegate(BigInc(BigNegate(x)))

BoundaryValues(size) ==
    LET half == BigPow2(8 * size - 1)
        full == BigPow2(8 * size)
    IN  {BN_0, BN_1, BigNegate(BN_1),
         BigDec(half), half, BigInc(half),
         BigDec(full), full, BigInc(full),
         BigNegate(BigDec(half)), BigNegate(half), BigNegate(BigInc(half)),
         BigNegate(full)}

NumberCalls ==
    UNION {
        {[op |-> "NumberCoder.encode", coder |-> NumberCoder(size, signed),
          value |-> v, writer |-> w] :
            signed \in BOOLEAN,
            v \in BoundaryValues(size) \cup BoundaryValues(WordSize),
            w \in {<<>>, Ones(WordSize)}} :
        size \in 1..WordSize}

InitNumber == ModuleInit /\ call \in NumberCalls

\* coder.encode(writer, value) on a NumberCoder
NumberEncode ==
    /\ pc = "call"
    /\ call.op = "NumberCoder.encode"
    /\ LET enc == NumberCoder_encode(call.coder, call.writer, call.value)
       IN  ret' = Returned("NumberCoder.encode", enc.err, <<call.coder>>,
                           enc.writer, <<>>, 0, 0)
    /\ pc' = "done"
    /\ UNCHANGED <<defaultMaxInflation, defaultCoder, call>>

\* coder.decode(reader) on the word just written
NumberDecode ==
    /\ pc = "done"
    /\ ret.op = "NumberCoder.encode"
    /\ ret.err = NoError
    /\ LET word == SubSeq(ret.data, Len(call.writer) + 1, Len(ret.data))
           dec == NumberCoder_decode(call.coder, Reader(word, FALSE, defaultMaxInflation))
       IN  ret' = Returned("NumberCoder.decode", dec.err, <<call.coder>>,
                           ret.data, dec.value, dec.reader.read, dec.reader.extent)
    /\ pc' = "decoded"
    /\ UNCHANGED <<defaultMaxInflation, defaultCoder, call>>

NextNumber == NumberEncode \/ NumberDecode

SpecNumber == InitNumber /\ [][NextNumber]_vars

\* whether a BigInt lies in the range of a number type of size bytes, read
\* off its bytes: nothing above the low size bytes, and for a signed type the
\* top bit of the low bytes clear (or the value is exactly -2^(8 size - 1))
HighBytesZero(v, size) == \A i \in 1..(BigLen - size) : v.mag[i] = 0

InRange(size, signed, v) ==
    LET top == v.mag[BigLen - size + 1]
        restZero == \A i \in (BigLen - size + 2)..BigLen : v.mag[i] = 0
    IN  IF ~signed THEN ~v.neg /\ HighBytesZero(v, size)
        ELSE /\ HighBytesZero(v, size)
             /\ \/ top < 128
                \/ v.neg /\ top = 128 /\ restZero

\* C2: NumberCoder.encode throws "value out-of-bounds" exactly for the
\* values outside the range of the declared width; a value inside it is
\* written as one word, and a refused value leaves the writer as it was.
C2_BoundsEnforcement ==
    (pc = "done" /\ ret.op = "NumberCoder.encode") =>
        LET inRange == InRange(call.coder.size, call.coder.signed, call.value)
        IN  /\ inRange <=> ret.err = NoError
            /\ ~inRange =>
                 /\ ret.err = makeError("value out-of-bounds", "INVALID_ARGUMENT")
                 /\ ret.data = call.writer
            /\ inRange =>
                 /\ Len(ret.data) = Len(call.writer) + WordSize
                 /\ SubSeq(ret.data, 1, Len(call.writer)) = call.writer

\* a signed value one below the lower bound was refused, the writer untouched
C2_Witness ==
    /\ pc = "done"
    /\ ret.op = "NumberCoder.encode"
    /\ call.coder = NumberCoder(2, TRUE)
    /\ call.value = BigNegate(BigInc(BigPow2(15)))
    /\ ret.err.message = "value out-of-bounds"
    /\ ret.data = call.writer
    /\ call.writer # <<>>

-----------------------------------------------------------------------------
(* The coder dispatcher on its own: #getCoder applied to the ParamType of  *)
(* a basic type of any name                                                *)

MaxDigits == 3

\* the digit strings of length n
RECURSIVE DigitStrings(_)
DigitStrings(n) ==
    IF n = 0 THEN {<<>>}
    ELSE {<<d>> \o rest : d \in Digits, rest \in DigitStrings(n - 1)}

Suffixes == UNION {DigitStrings(n) : n \in 0..MaxDigits}

S_foo == <<"f", "o", "o">>

TypeNames ==
    {prefix \o suffix : prefix \in {S_uint, S_int, S_bytes}, suffix \in Suffixes}
    \cup {prefix \o suffix :
            prefix \in {S_address, S_bool, S_string, S_foo, <<>>,
                        <<"U", "i", "n", "t">>, S_uint \o <<"x">>, S_bytes \o <<"_">>,
                        <<"u">>, S_int \o <<"8">> \o S_uint},
            suffix \in {<<>>, <<"8">>, <<"1", "6">>}}

InitDispatch ==
    /\ ModuleInit
    /\ call \in {[op |-> "getCoder", param |-> BasicType(name)] : name \in TypeNames}

\* this.#getCoder(param)
GetCoder ==
    /\ pc = "call"
    /\ call.op = "getCoder"
    /\ LET c == AbiCoder_getCoder(call.param)
       IN  ret' = Returned("getCoder", c.err,
                           IF c.err = NoError THEN <<c.coder>> ELSE <<>>,
                           <<>>, <<>>, 0, 0)
    /\ pc' = "done"
    /\ UNCHANGED <<defaultMaxInflation, defaultCoder, call>>

NextDispatch == GetCoder

SpecDispatch == InitDispatch /\ [][NextDispatch]_vars

\* the number a digit string denotes, digit by digit from the left
RECURSIVE Decimal(_, _)
Decimal(digits, acc) ==
    IF digits = <<>> THEN acc
    ELSE Decimal(Tail(digits), 10 * acc + DigitValue(Head(digits)))

\* the coder the grammar gives a name: <<coder>>, or <<>> for no coder
GrammarCoder(name) ==
    IF name = S_address THEN <<AddressCoder>>
    ELSE IF name = S_bool THEN <<BooleanCoder>>
    ELSE IF name = S_string THEN <<StringCoder>>
    ELSE IF name = S_bytes THEN <<BytesCoder>>
    ELSE IF name = <<>> THEN <<NullCoder>>
    ELSE IF \E prefix \in {S_uint, S_int} :
               IsPrefix(prefix, name)
               /\ AllDigits(SubSeq(name, Len(prefix) + 1, Len(name)))
    THEN LET signed == IsPrefix(S_int, name)
             digits == SubSeq(name, (IF signed THEN 3 ELSE 4) + 1, Len(name))
             N == IF digits = <<>> THEN 256 ELSE Decimal(digits, 0)
         IN  IF N % 8 = 0 /\ 8 <= N /\ N <= 256
             THEN <<NumberCoder(N \div 8, signed)>>
             ELSE <<>>
    ELSE IF IsPrefix(S_bytes, name) /\ AllDigits(SubSeq(name, 6, Len(name)))
    THEN LET N == Decimal(SubSeq(name, 6, Len(name)), 0)
         IN  IF 1 <= N /\ N <= 32 THEN <<FixedBytesCoder(N)>> ELSE <<>>
    ELSE <<>>

\* C4: the dispatcher returns exactly the coder the grammar gives the name
\* of a basic type (uintN / intN for N a multiple of 8 in 8..256, bare uint
\* / int meaning 256; bytesN for N in 1..32; address, bool, string, bytes,
\* the empty type), and for every other name throws an invalid-argument
\* error and returns no coder.  N is the number the digits denote.
C4_DispatchGrammar ==
    (pc = "done" /\ ret.op = "getCoder") =>
        /\ ret.coders = GrammarCoder(call.param.type)
        /\ ret.coders = <<>> <=> ret.err.code = "INVALID_ARGUMENT"
        /\ ret.coders # <<>> <=> ret.err = NoError

\* int24 was given the signed NumberCoder of 3 bytes
C4_Witness ==
    /\ pc = "done"
    /\ ret.op = "getCoder"
    /\ call.param.type = S_int \o <<"2", "4">>
    /\ ret.coders = <<NumberCoder(3, TRUE)>>

-----------------------------------------------------------------------------
(* The facade: the types and values the calls of the model are drawn from *)

MaxTypes == 2      \* the longest type list built from PairUniverse

MaxArrayLen == 2   \* the longest uint8[] value

T_uint8 == BasicType(S_uint \o <<"8">>)

T_int8 == BasicType(S_int \o <<"8">>)

T_int16 == BasicType(S_int \o <<"1", "6">>)

T_uint256 == BasicType(S_uint \o <<"2", "5", "6">>)

T_int256 == BasicType(S_int \o <<"2", "5", "6">>)

T_uint == BasicType(S_uint)

T_uint7 == BasicType(S_uint \o <<"7">>)

T_address == BasicType(S_address)

T_bool == BasicType(S_bool)

T_bytes == BasicType(S_bytes)

T_string == BasicType(S_string)

T_bytes1 == BasicType(S_bytes \o <<"1">>)

T_bytes2 == BasicType(S_bytes \o <<"2">>)

T_bytes32 == BasicType(S_bytes \o <<"3", "2">>)

T_bytes33 == BasicType(S_bytes \o <<"3", "3">>)

AddrBytes == [i \in 1..AddressLen |-> 160 + i]

Addr(form) == [bytes |-> AddrBytes, form |-> form]

Str_hi == <<104, 105>>

Str_e_acute == <<233>>

Count(n) == [i \in 1..n |-> i]

\* a typed value: the type, a value for it, and whether encode accepts it
TV(type, value, valid) == [type |-> type, value |-> value, valid |-> valid]

\* the typed values used in the longer type lists
PairUniverse ==
    <<TV(T_uint8, BigOfInt(255), TRUE),
      TV(T_int8, BigOfInt(-1), TRUE),
      TV(T_address, Addr("lower"), TRUE),
      TV(T_bytes2, <<1, 2>>, TRUE),
      TV(T_bytes, <<1, 2, 3>>, TRUE),
      TV(T_string, Str_hi, TRUE),
      TV(ArrayType(T_uint8, -1), <<BigOfInt(1), BigOfInt(2)>>, TRUE),
      TV(ArrayType(T_string, 0), <<>>, TRUE),
      TV(TupleType(<<T_uint8, T_string>>), <<BigOfInt(5), Str_hi>>, TRUE)>>

\* the typed values used alone: those above and these
SingleUniverse ==
    PairUniverse \o
    <<TV(T_uint8, BigOfInt(0), TRUE), TV(T_uint8, BigOfInt(256), FALSE),
      TV(T_uint8, Number(7), TRUE), TV(T_int8, Number(-128), TRUE),
      TV(T_uint8, Number(256), FALSE),
      TV(T_uint8, BigOfInt(-1), FALSE),
      TV(T_int8, BigOfInt(-128), TRUE), TV(T_int8, BigOfInt(127), TRUE),
      TV(T_int8, BigOfInt(128), FALSE), TV(T_int8, BigOfInt(-129), FALSE),
      TV(T_int16, BigOfInt(-2), TRUE), TV(T_int16, BigOfInt(-32768), TRUE),
      TV(T_uint256, BigOfInt(1), TRUE), TV(T_uint256, BN_MAX_UINT256, TRUE),
      TV(T_uint256, BigPow2(256), FALSE),
      TV(T_int256, BigNegate(BigPow2(255)), TRUE), TV(T_int256, BigPow2(255), FALSE),
      TV(T_uint, BigOfInt(1), TRUE),
      TV(T_uint7, BigOfInt(1), FALSE),
      TV(T_bytes33, Count(33), FALSE),
      TV(T_address, Addr("checksum"), TRUE), TV(T_address, Addr("upper"), TRUE),
      TV(T_address, Addr("mixed"), FALSE),
      TV(T_address, [bytes |-> Zeros(AddressLen), form |-> "lower"], TRUE),
      TV(T_address, [bytes |-> Count(19), form |-> "lower"], FALSE),
      TV(T_bool, TRUE, TRUE), TV(T_bool, FALSE, TRUE),
      TV(T_bytes1, <<7>>, TRUE), TV(T_bytes2, <<1>>, FALSE),
      TV(T_bytes2, <<1, 2, 3>>, FALSE),
      TV(T_bytes32, Count(32), TRUE), TV(T_bytes32, Count(31), FALSE),
      TV(T_bytes, <<>>, TRUE), TV(T_bytes, Count(32), TRUE), TV(T_bytes, Count(33), TRUE),
      TV(T_string, <<>>, TRUE), TV(T_string, Str_e_acute, TRUE),
      TV(ArrayType(T_uint8, 2), <<BigOfInt(1), BigOfInt(2)>>, TRUE),
      TV(ArrayType(T_uint8, 2), <<BigOfInt(1)>>, FALSE),
      TV(ArrayType(T_uint8, 2), <<BigOfInt(1), BigOfInt(256)>>, FALSE),
      TV(ArrayType(T_uint8, 0), <<>>, TRUE),
      TV(ArrayType(T_string, -1), <<Str_hi, <<>>>>, TRUE),
      TV(ArrayType(T_string, 2), <<Str_hi, Str_e_acute>>, TRUE),
      TV(ArrayType(T_bytes, 2), <<<<9>>, Count(33)>>, TRUE),
      TV(ArrayType(ArrayType(T_uint8, -1), -1), << <<BigOfInt(1)>>, <<>> >>, TRUE),
      TV(ArrayType(ArrayType(T_string, -1), 2), << <<Str_hi>>, <<Str_hi, Str_hi>> >>, TRUE),
      TV(TupleType(<<T_uint8, T_int8>>), <<BigOfInt(5), BigOfInt(-5)>>, TRUE),
      TV(TupleType(<<>>), <<>>, TRUE),
      TV(TupleType(<<T_string, TupleType(<<T_bytes, T_bool>>)>>),
         <<Str_hi, <<Count(3), TRUE>> >>, TRUE),
      TV(ArrayType(TupleType(<<T_uint8, T_string>>), -1),
         << <<BigOfInt(5), Str_hi>>, <<BigOfInt(6), <<>>>> >>, TRUE)>>
    \o [n \in 1..(MaxArrayLen + 1) |->
            TV(ArrayType(T_uint8, -1), [i \in 1..(n - 1) |-> BigOfInt(i)], TRUE)]

\* the sequences of length n over a set
RECURSIVE SeqsOfLen(_, _)
SeqsOfLen(S, n) ==
    IF n = 0 THEN {<<>>}
    ELSE {<<x>> \o rest : x \in S, rest \in SeqsOfLen(S, n - 1)}

\* the lists of typed values, each a list of positions in SingleUniverse:
\* none, one of any, or up to MaxTypes of the few
TypedLists ==
    {<<>>} \cup {<<i>> : i \in 1..Len(SingleUniverse)}
    \cup UNION {SeqsOfLen(1..Len(PairUniverse), n) : n \in 2..MaxTypes}

TypesOf(universe, at) == [i \in 1..Len(at) |-> universe[at[i]].type]

ValuesOf(universe, at) == [i \in 1..Len(at) |-> universe[at[i]].value]

AllValid(universe, at) == \A i \in 1..Len(at) : universe[at[i]].valid

Call(op, types, values, valid) ==
    [op |-> op, types |-> types, values |-> values, valid |-> valid,
     origin |-> "caller"]

\* a call of encode with as many values as types
EncodeCall(at) ==
    Call("encode", TypesOf(SingleUniverse, at), ValuesOf(SingleUniverse, at),
         AllValid(SingleUniverse, at))

\* calls of encode with fewer or more values than types; some of the types
\* are not types, and some of the values no encoder would accept
MismatchUniverse ==
    <<TV(T_uint8, BigOfInt(255), TRUE), TV(T_uint7, BigOfInt(1), FALSE),
      TV(T_uint8, BigOfInt(256), FALSE), TV(T_string, Str_hi, TRUE)>>

MismatchLists(maxLen) ==
    UNION {SeqsOfLen(1..Len(MismatchUniverse), n) : n \in 0..maxLen}

MismatchCall(ts, vs) ==
    Call("encode", TypesOf(MismatchUniverse, ts), ValuesOf(MismatchUniverse, vs), FALSE)

DefaultCall(at) == Call("getDefaultValue", TypesOf(SingleUniverse, at), <<>>, TRUE)

Init ==
    /\ ModuleInit
    /\ \/ \E at \in TypedLists : call = EncodeCall(at)
       \/ \E at \in TypedLists : call = DefaultCall(at)
       \/ \E ts \in MismatchLists(MaxTypes), vs \in MismatchLists(MaxTypes + 1) :
             Len(ts) # Len(vs) /\ call = MismatchCall(ts, vs)

\* abiCoder.encode(types, values)
Encode ==
    /\ pc = "call"
    /\ call.op = "encode"
    /\ ret' = AbiCoder_encode(call.types, call.values)
    /\ pc' = "done"
    /\ UNCHANGED <<defaultMaxInflation, defaultCoder, call>>

\* abiCoder.getDefaultValue(types)
GetDefaultValue ==
    /\ pc = "call"
    /\ call.op = "getDefaultValue"
    /\ ret' = AbiCoder_getDefaultValue(call.types)
    /\ pc' = "done"
    /\ UNCHANGED <<defaultMaxInflation, defaultCoder, call>>

\* abiCoder.encode(types, abiCoder.getDefaultValue(types)): the value the
\* last call returned is encoded
EncodeDefault ==
    /\ pc = "done"
    /\ ret.op = "getDefaultValue"
    /\ ret.err = NoError
    /\ call' = [call EXCEPT !.op = "encode", !.values = ret.value, !.origin = "default"]
    /\ ret' = AbiCoder_encode(call.types, ret.value)
    /\ UNCHANGED <<defaultMaxInflation, defaultCoder, pc>>

\* abiCoder.decode(types, abiCoder.encode(types, values)): the bytes the
\* last call returned are decoded
DecodeEncoded ==
    /\ pc = "done"
    /\ ret.op = "encode"
    /\ ret.err = NoError
    /\ ret' = AbiCoder_decode(call.types, ret.data, FALSE, defaultMaxInflation)
    /\ UNCHANGED <<defaultMaxInflation, defaultCoder, call, pc>>

Next == Encode \/ GetDefaultValue \/ EncodeDefault \/ DecodeEncoded

Spec == Init /\ [][Next]_vars

-----------------------------------------------------------------------------
(* Properties of the facade *)

\* a value as decode returns it: an address in checksum case, a number as
\* the BigInt of the same value
RECURSIVE Canonical(_, _)
Canonical(coder, value) ==
    CASE coder.kind = "address" -> [bytes |-> value.bytes, form |-> "checksum"]
      [] coder.kind = "number" -> getBigInt(value)
      [] coder.kind = "array" ->
            [i \in 1..Len(value) |-> Canonical(coder.coder, value[i])]
      [] coder.kind = "tuple" ->
            [i \in 1..Len(value) |-> Canonical(coder.coders[i], value[i])]
      [] OTHER -> value

\* C1: an accepted list of values is encoded without error, and decoding
\* the bytes with the same types returns the values, position by position,
\* addresses in checksum case.
C1_RoundTrip ==
    /\ (pc = "done" /\ ret.op = "encode" /\ call.valid
            /\ Len(call.values) = Len(call.types)) => ret.err = NoError
    /\ (pc = "done" /\ ret.op = "decode") =>
            /\ ret.err = NoError
            /\ ret.value = Canonical(TupleCoder(ret.coders), call.values)

\* a lower-case address and a string came back, the address in checksum case
C1_Witness ==
    /\ pc = "done"
    /\ ret.op = "decode"
    /\ call.types = <<T_address, T_string>>
    /\ call.values = <<Addr("lower"), Str_hi>>
    /\ ret.value = <<Addr("checksum"), Str_hi>>

\* C3: encode with fewer or more values than types throws the count error
\* (missing / unexpected argument), before any type is looked at and
\* without output, whatever the types and values are.
C3_CountMismatch ==
    (pc = "done" /\ ret.op = "encode" /\ Len(call.values) # Len(call.types)) =>
        /\ ret.err.code = IF Len(call.values) < Len(call.types)
                          THEN "MISSING_ARGUMENT" ELSE "UNEXPECTED_ARGUMENT"
        /\ ret.coders = <<>>
        /\ ret.data = <<>>

\* two values for the one type uint7, which is no type: the count error
C3_Witness ==
    /\ pc = "done"
    /\ ret.op = "encode"
    /\ call.types = <<T_uint7>>
    /\ Len(call.values) = 2
    /\ ret.err.code = "UNEXPECTED_ARGUMENT"
    /\ ret.data = <<>>


\* the encoded size of a static type, fixed by the type
RECURSIVE StaticSize(_)
RECURSIVE SumStaticSize(_, _)
SumStaticSize(coders, index) ==
    IF index > Len(coders) THEN 0
    ELSE StaticSize(coders[index]) + SumStaticSize(coders, index + 1)

StaticSize(coder) ==
    CASE coder.kind = "null"  -> 0
      [] coder.kind = "array" -> coder.length * StaticSize(coder.coder)
      [] coder.kind = "tuple" -> SumStaticSize(coder.coders, 1)
      [] OTHER -> WordSize

\* the bytes a component takes in the head
HeadSlot(coder) == IF coder.dynamic THEN WordSize ELSE StaticSize(coder)

RECURSIVE HeadLength(_, _)
HeadLength(coders, index) ==
    IF index > Len(coders) THEN 0
    ELSE HeadSlot(coders[index]) + HeadLength(coders, index + 1)

\* the encoding of one value on its own
Standalone(coder, value) == Coder_encode(coder, <<>>, value).writer

\* data is the head/tail encoding of the components from index on, the head
\* continuing at headPos and the tail at tailPos: a static component is in
\* its head slot; the slot of a dynamic one holds tailPos, where its segment
\* is, and the next segment follows it
RECURSIVE HeadTail(_, _, _, _, _, _)
HeadTail(coders, values, data, index, headPos, tailPos) ==
    IF index > Len(coders) THEN tailPos = Len(data)
    ELSE LET coder == coders[index]
             segment == Standalone(coder, values[index])
         IN  IF coder.dynamic
             THEN /\ SubSeq(data, headPos + 1, headPos + WordSize)
                        = toBeBytes(tailPos, WordSize)
                  /\ SubSeq(data, tailPos + 1, tailPos + Len(segment)) = segment
                  /\ HeadTail(coders, values, data, index + 1,
                              headPos + WordSize, tailPos + Len(segment))
             ELSE /\ Len(segment) = StaticSize(coder)
                  /\ SubSeq(data, headPos + 1, headPos + Len(segment)) = segment
                  /\ HeadTail(coders, values, data, index + 1,
                              headPos + Len(segment), tailPos)

\* the offsets in the head slots of the dynamic components, in order
RECURSIVE Offsets(_, _, _, _)
Offsets(coders, data, index, headPos) ==
    IF index > Len(coders) THEN <<>>
    ELSE IF coders[index].dynamic
    THEN <<toNumber(SubSeq(data, headPos + WordSize - 2, headPos + WordSize))>>
         \o Offsets(coders, data, index + 1, headPos + WordSize)
    ELSE Offsets(coders, data, index + 1, headPos + StaticSize(coders[index]))

\* the lengths of the tail segments of the dynamic components, in order
RECURSIVE SegmentLengths(_, _, _)
SegmentLengths(coders, values, index) ==
    IF index > Len(coders) THEN <<>>
    ELSE IF coders[index].dynamic
    THEN <<Len(Standalone(coders[index], values[index]))>>
         \o SegmentLengths(coders, values, index + 1)
    ELSE SegmentLengths(coders, values, index + 1)

Encoded_ok == pc = "done" /\ ret.op = "encode" /\ ret.err = NoError

\* C5 as stated: the head/tail layout, and the offsets of successive
\* dynamic components strictly increasing.
C5_Original ==
    Encoded_ok =>
        LET offsets == Offsets(ret.coders, ret.data, 1, 0)
        IN  /\ HeadTail(ret.coders, call.values, ret.data, 1, 0,
                        HeadLength(ret.coders, 1))
            /\ \A i \in 1..(Len(offsets) - 1) : offsets[i] < offsets[i + 1]

\* C5 amended: in the output of encode the static components are in their
\* head slots in order, the slot of a dynamic component holds the offset of
\* its tail segment from the start of the head (the first one the length of
\* the head), the segments follow one another in the order of their slots,
\* and so each offset is the one before plus the length of the segment
\* before: never smaller, and larger unless that segment is empty.
C5_HeadTail ==
    Encoded_ok =>
        LET offsets == Offsets(ret.coders, ret.data, 1, 0)
            lengths == SegmentLengths(ret.coders, call.values, 1)
        IN  /\ HeadTail(ret.coders, call.values, ret.data, 1, 0,
                        HeadLength(ret.coders, 1))
            /\ Len(offsets) > 0 => offsets[1] = HeadLength(ret.coders, 1)
            /\ \A i \in 1..(Len(offsets) - 1) :
                  /\ offsets[i + 1] = offsets[i] + lengths[i]
                  /\ offsets[i] <= offsets[i + 1]
                  /\ lengths[i] > 0 => offsets[i] < offsets[i + 1]

\* a string and bytes: offsets 0x40 and 0x80, the segments in that order
C5_Witness ==
    /\ Encoded_ok
    /\ call.types = <<T_string, T_bytes>>
    /\ Offsets(ret.coders, ret.data, 1, 0) = <<64, 128>>
    /\ SubSeq(ret.data, 97, 98) = Str_hi
    /\ SubSeq(ret.data, 161, 163) = <<1, 2, 3>>

AllZero(bytes, from, to) == \A i \in from..to : bytes[i] = 0

\* the bytes of a length-prefixed segment after its content are zero
PaddedContent(enc) ==
    LET length == toNumber(SubSeq(enc, WordSize - 2, WordSize))
    IN  /\ AllZero(enc, 1, WordSize - 3)
        /\ Len(enc) = WordSize + ((length + WordSize - 1) \div WordSize) * WordSize
        /\ AllZero(enc, WordSize + length + 1, Len(enc))

\* in enc, the encoding of value on its own, every byte that is not value
\* content (the low size bytes of a number, the last 20 of an address, the
\* last of a boolean, the first size of bytesN, a length word and the
\* content after it, an offset word) is zero
RECURSIVE WellPadded(_, _, _)
RECURSIVE WellPaddedFrom(_, _, _, _, _, _)
WellPaddedFrom(coders, values, enc, index, headPos, tailPos) ==
    IF index > Len(coders) THEN TRUE
    ELSE LET coder == coders[index]
             length == Len(Standalone(coder, values[index]))
         IN  IF coder.dynamic
             THEN /\ WellPadded(coder, values[index],
                                SubSeq(enc, tailPos + 1, tailPos + length))
                  /\ WellPaddedFrom(coders, values, enc, index + 1,
                                    headPos + WordSize, tailPos + length)
             ELSE /\ WellPadded(coder, values[index],
                                SubSeq(enc, headPos + 1, headPos + length))
                  /\ WellPaddedFrom(coders, values, enc, index + 1,
                                    headPos + length, tailPos)

WellPadded(coder, value, enc) ==
    /\ Len(enc) % WordSize = 0
    /\ CASE coder.kind = "number" ->
                /\ Len(enc) = WordSize
                /\ (coder.signed /\ getBigInt(value).neg)
                      \/ AllZero(enc, 1, WordSize - coder.size)
         [] coder.kind = "address" ->
                Len(enc) = WordSize /\ AllZero(enc, 1, WordSize - AddressLen)
         [] coder.kind = "bool" ->
                Len(enc) = WordSize /\ AllZero(enc, 1, WordSize - 1)
         [] coder.kind = "fixedbytes" ->
                /\ Len(enc) = WordSize
                /\ SubSeq(enc, 1, coder.size) = value
                /\ AllZero(enc, coder.size + 1, WordSize)
         [] coder.kind \in {"bytes", "string"} -> PaddedContent(enc)
         [] coder.kind = "null" -> enc = <<>>
         [] coder.kind = "tuple" ->
                WellPaddedFrom(coder.coders, value, enc, 1, 0, HeadLength(coder.coders, 1))
         [] coder.kind = "array" ->
                LET coders == [i \in 1..Len(value) |-> coder.coder]
                IN  IF coder.length = -1
                    THEN /\ AllZero(enc, 1, WordSize - 3)
                         /\ WellPaddedFrom(coders, value, SubSeq(enc, WordSize + 1, Len(enc)),
                                           1, 0, HeadLength(coders, 1))
                    ELSE WellPaddedFrom(coders, value, enc, 1, 0, HeadLength(coders, 1))

\* C6: the output of encode for accepted values is a whole number of words,
\* and every byte of it that is not value content is zero; the bytes above
\* a negative signed number, which are its sign extension, are excepted.
C6_WordAlignment ==
    Encoded_ok =>
        /\ Len(ret.data) % WordSize = 0
        /\ WellPadded(TupleCoder(ret.coders), call.values, ret.data)

\* bytes2 0x0102 and the three bytes 0x010203: content first, 30 and 29
\* zero bytes after it
C6_Witness ==
    /\ Encoded_ok
    /\ call.types = <<T_bytes2, T_bytes>>
    /\ Len(ret.data) = 4 * WordSize
    /\ SubSeq(ret.data, 1, 3) = <<1, 2, 0>>
    /\ SubSeq(ret.data, 3 * WordSize + 1, 3 * WordSize + 4) = <<1, 2, 3, 0>>

Defaulted == pc = "done" /\ call.origin = "default"

\* the default value of a supported type, stated apart from the coders
RECURSIVE ZeroValue(_)
ZeroValue(coder) ==
    CASE coder.kind = "number" -> Number(0)
      [] coder.kind = "address" -> [bytes |-> Zeros(AddressLen), form |-> "checksum"]
      [] coder.kind = "bool" -> FALSE
      [] coder.kind = "fixedbytes" -> Zeros(coder.size)
      [] coder.kind \in {"bytes", "string"} -> <<>>
      [] coder.kind = "null" -> Null
      [] coder.kind = "array" ->
            [i \in 1..(IF coder.length = -1 THEN 0 ELSE coder.length) |->
                ZeroValue(coder.coder)]
      [] coder.kind = "tuple" ->
            [i \in 1..Len(coder.coders) |-> ZeroValue(coder.coders[i])]

Supported(types) == AbiCoder_coders(types, 1).err = NoError

\* the value that equals value and has numbers as BigInts; strings are kept
\* as they are
RECURSIVE SameValue(_, _)
SameValue(coder, value) ==
    CASE coder.kind = "number" -> getBigInt(value)
      [] coder.kind = "array" ->
            [i \in 1..Len(value) |-> SameValue(coder.coder, value[i])]
      [] coder.kind = "tuple" ->
            [i \in 1..Len(value) |-> SameValue(coder.coders[i], value[i])]
      [] OTHER -> value

\* C10: for supported types getDefaultValue returns the zero of each type
\* (0, the zero address, size zero bytes, the empty string, and so on
\* through arrays and tuples), encode accepts it, and decode of the bytes
\* returns values equal to it: the same strings and booleans, and for a
\* number the BigInt 0n where the default is the number 0 (0 == 0n).
C10_DefaultIdentity ==
    /\ (pc = "done" /\ ret.op = "getDefaultValue" /\ Supported(call.types)) =>
            /\ ret.err = NoError
            /\ ret.value = ZeroValue(TupleCoder(ret.coders))
    /\ (Defaulted /\ ret.op = "encode") => ret.err = NoError
    /\ (Defaulted /\ ret.op = "decode") =>
            /\ ret.err = NoError
            /\ ret.value = [i \in 1..Len(call.values) |->
                    SameValue(ret.coders[i], call.values[i])]

\* the defaults of bytes2, address and string came back from decode
C10_Witness ==
    /\ Defaulted
    /\ ret.op = "decode"
    /\ \E i \in 1..Len(call.types) : call.types[i] = T_bytes2
    /\ \E i \in 1..Len(call.types) : call.types[i] = T_address
    /\ Len(ret.value) = Len(call.types)


-----------------------------------------------------------------------------
(* decode on buffers made by hand: well-formed encodings, each also cut    *)
(* short, or with one byte changed (a length or an offset made huge or     *)
(* unaligned, a padding byte made non-zero), decoded strictly and loosely  *)
(* under the inflation factors _setDefaultMaxInflation can set             *)

MaxFactor == 2     \* the factors set are 1..MaxFactor and the initial one

Word(n) == toBeBytes(n, WordSize)

Padded(bytes) == bytes \o Zeros((WordSize - (Len(bytes) % WordSize)) % WordSize)

Buffer(types, data) == [types |-> types, data |-> data]

DecodeUniverse ==
    <<Buffer(<<T_bytes32>>, Count(WordSize)),
      Buffer(<<T_uint8, T_bool>>, Word(5) \o Word(1)),
      Buffer(<<T_address>>, Zeros(WordSize - AddressLen) \o AddrBytes),
      Buffer(<<T_bytes>>, Word(32) \o Word(3) \o Padded(<<1, 2, 3>>)),
      Buffer(<<T_string>>, Word(32) \o Word(2) \o Padded(Str_hi)),
      Buffer(<<ArrayType(T_uint8, -1)>>, Word(32) \o Word(2) \o Word(1) \o Word(2)),
      Buffer(<<T_bytes, T_uint8>>, Word(64) \o Word(7) \o Word(1) \o Padded(<<9>>)),
      \* two offsets to one segment
      Buffer(<<T_bytes, T_bytes>>,
             Word(64) \o Word(64) \o Word(WordSize) \o Count(WordSize)),
      Buffer(<<ArrayType(T_string, -1)>>,
             Word(32) \o Word(1) \o Word(32) \o Word(2) \o Padded(Str_hi)),
      \* two inner arrays at one offset
      Buffer(<<ArrayType(ArrayType(T_uint8, -1), -1)>>,
             Word(32) \o Word(2) \o Word(64) \o Word(64)
                \o Word(2) \o Word(1) \o Word(2)),
      Buffer(<<T_uint7>>, Word(1)),
      Buffer(<<>>, <<>>)>>

\* the lengths a buffer is cut to
Cuts(data) ==
    {0, WordSize - 1, Len(data) - WordSize, Len(data) - 1, Len(data)} \cap (0..Len(data))

\* the bytes changed: the first and the last of each word, and the byte
\* three after the start of a word (in the buffers above, padding)
Pokes(data) == {p \in 1..Len(data) : p % WordSize \in {0, 1, 4}}

PokeValues == {1, 255}

DecodeCall(types, data) ==
    [op |-> "decode", types |-> types, data |-> data, strict |-> NotRun]

InitDecode ==
    /\ ModuleInit
    /\ \E i \in 1..Len(DecodeUniverse) :
          LET b == DecodeUniverse[i] IN
          \/ \E n \in Cuts(b.data) : call = DecodeCall(b.types, SubSeq(b.data, 1, n))
          \/ \E p \in Pokes(b.data), v \in PokeValues :
                call = DecodeCall(b.types, [b.data EXCEPT ![p] = v])

\* AbiCoder._setDefaultMaxInflation(value) with an integer
SetDefaultMaxInflation ==
    /\ pc \in {"call", "again"}
    /\ \E value \in (1..MaxFactor) \cup {InitialMaxInflation} :
          /\ assertArgument(TRUE, "invalid defaultMaxInflation factor") = NoError
          /\ defaultMaxInflation' = value
    /\ UNCHANGED <<defaultCoder, call, ret, pc>>

\* AbiCoder._setDefaultMaxInflation(value) with a value that is no integer:
\* the error, and the factor stays
SetDefaultMaxInflationInvalid ==
    /\ pc \in {"call", "again"}
    /\ ret.op # "_setDefaultMaxInflation"
    /\ ret' = Returned("_setDefaultMaxInflation",
                       assertArgument(FALSE, "invalid defaultMaxInflation factor"),
                       <<>>, <<>>, <<>>, 0, 0)
    /\ UNCHANGED <<defaultMaxInflation, defaultCoder, call, pc>>

\* abiCoder.decode(types, data, loose): strictly or loosely at first, and
\* loosely after the strict decode of the same data, whose result is then
\* kept in call.strict
Decode ==
    /\ pc \in {"call", "strict"}
    /\ \E loose \in BOOLEAN :
          /\ pc = "strict" => loose
          /\ ret' = AbiCoder_decode(call.types, call.data, loose, defaultMaxInflation)
          /\ pc' = IF loose THEN "loose" ELSE "strict"
    /\ call' = [call EXCEPT !.strict = IF pc = "strict" THEN ret ELSE NotRun]
    /\ UNCHANGED <<defaultMaxInflation, defaultCoder>>

NextDecode == SetDefaultMaxInflation \/ SetDefaultMaxInflationInvalid \/ Decode

SpecDecode == InitDecode /\ [][NextDecode]_vars


-----------------------------------------------------------------------------
(* Properties of decode *)

Decoded_done == pc \in {"strict", "loose"} /\ ret.op = "decode" /\ Supported(call.types)

\* the word of the data that starts after pos bytes, as a length or offset
\* (IndexCap where there is no such word)
IndexAt(data, pos) ==
    IF pos + WordSize > Len(data) THEN IndexCap
    ELSE LET word == SubSeq(data, pos + 1, pos + WordSize)
         IN  IF SignificantLen(word) > 3 THEN IndexCap
             ELSE toNumber(SubSeq(word, WordSize - 2, WordSize))

\* a type list of one bytes, string or uint8[]: the data is an offset word,
\* and at the offset a length word and the content
SingleDynamic == call.types \in {<<T_bytes>>, <<T_string>>, <<ArrayType(T_uint8, -1)>>}

ElementSize == IF call.types \in {<<T_bytes>>, <<T_string>>} THEN 1 ELSE WordSize

HasLength ==
    /\ Len(call.data) >= WordSize
    /\ IndexAt(call.data, 0) + WordSize <= Len(call.data)

ClaimedLength == IndexAt(call.data, IndexAt(call.data, 0))

\* the bytes after the length word
Left == Len(call.data) - IndexAt(call.data, 0) - WordSize

\* the length word claims more than the factor times what is left
FarClaim == HasLength /\ ClaimedLength * ElementSize > defaultMaxInflation * Left

\* the offset word, the length word or the content claimed is not all there
NeedsMore ==
    \/ ~HasLength
    \/ ((ClaimedLength * ElementSize + WordSize - 1) \div WordSize) * WordSize > Left

StaticList == \A i \in 1..Len(ret.coders) : ~ret.coders[i].dynamic

\* decode takes no byte beyond the data, and fails with the underrun error
\* when the types alone need more than there is
NoOverread ==
    /\ ret.extent <= Len(call.data)
    /\ (StaticList /\ Len(call.data) < StaticSize(TupleCoder(ret.coders))) =>
            ret.err = BufferUnderrun /\ ret.value = <<>>

\* C7 as stated: every decode that needs more bytes than remain fails with
\* the buffer-underrun error.
C7_Original ==
    Decoded_done =>
        /\ NoOverread
        /\ (SingleDynamic /\ NeedsMore) => ret.err = BufferUnderrun

\* C7 amended: decode never takes a byte beyond the end of the data and
\* never returns a truncated or zero-filled value.  When the types alone
\* need more bytes than there are (bytes32 from 31 bytes) it fails with the
\* buffer-underrun error; when an offset or a length word asks for more
\* than remains it fails with the buffer-underrun error, or with the
\* inflation-guard error where the guard refuses the claim first (a length
\* beyond the factor times what is left).
C7_NoOverread ==
    Decoded_done =>
        /\ NoOverread
        /\ (SingleDynamic /\ NeedsMore) =>
                /\ ret.err \in {BufferUnderrun, InflationGuardTripped}
                /\ ret.value = <<>>
                /\ (~FarClaim /\ IndexAt(call.data, 0) >= WordSize) =>
                        ret.err = BufferUnderrun

\* bytes32 from 31 bytes
C7_Witness ==
    /\ pc = "strict"
    /\ call.types = <<T_bytes32>>
    /\ Len(call.data) = WordSize - 1
    /\ ret.err = BufferUnderrun
    /\ ret.extent = 0

\* the bytes of a decoded value
RECURSIVE ValueSize(_, _)
RECURSIVE SumValueSize(_, _, _)
SumValueSize(coders, values, index) ==
    IF index > Len(values) THEN 0
    ELSE ValueSize(coders[index], values[index]) + SumValueSize(coders, values, index + 1)

ValueSize(coder, value) ==
    CASE coder.kind \in {"number", "address", "bool"} -> WordSize
      [] coder.kind \in {"fixedbytes", "bytes"} -> Len(value)
      [] coder.kind = "string" -> Len(toUtf8Bytes(value))
      [] coder.kind = "null" -> 0
      [] coder.kind = "array" ->
            SumValueSize([i \in 1..Len(value) |-> coder.coder], value, 1)
      [] coder.kind = "tuple" -> SumValueSize(coder.coders, value, 1)

\* C8: a length word of a bytes, string or array that claims more than the
\* inflation factor times what remains makes decode fail with the
\* inflation-guard error, with no value and nothing consumed but the offset
\* and length words; and a value decode returns is never larger than the
\* factor in force (1024 unless set) times the length of the data.
C8_InflationGuard ==
    Decoded_done =>
        /\ (SingleDynamic /\ FarClaim) =>
                /\ ret.err = InflationGuardTripped
                /\ ret.value = <<>>
                /\ ret.read <= 2 * WordSize
        /\ ret.err = NoError =>
                /\ ValueSize(TupleCoder(ret.coders), ret.value)
                        <= defaultMaxInflation * Len(call.data)
                /\ ret.read <= defaultMaxInflation * Len(call.data)

\* a bytes whose length word is huge, under the initial factor
C8_Witness ==
    /\ Decoded_done
    /\ call.types = <<T_bytes>>
    /\ defaultMaxInflation = InitialMaxInflation
    /\ Len(call.data) = 3 * WordSize
    /\ ClaimedLength = IndexCap
    /\ ret.err = InflationGuardTripped

\* C9: the loose decode of data fails with the underrun or the inflation
\* error exactly where the strict one does, succeeds with the same value
\* whenever the strict one succeeds, and succeeds where the strict one
\* fails only when that failed on padding.
C9_LooseOnlyPadding ==
    (pc = "loose" /\ call.strict.op = "decode" /\ ret.op = "decode") =>
        /\ call.strict.err = NoError =>
                ret.err = NoError /\ ret.value = call.strict.value
        /\ call.strict.err \in {BufferUnderrun, InflationGuardTripped} =>
                ret.err = call.strict.err
        /\ (ret.err = NoError /\ call.strict.err # NoError) =>
                call.strict.err = NonZeroPadding

\* both decodes of a well-formed (bytes, uint8) succeeded with one value
C9_Witness ==
    /\ pc = "loose"
    /\ call.types = <<T_bytes, T_uint8>>
    /\ call.strict.op = "decode"
    /\ call.strict.err = NoError
    /\ ret.err = NoError
    /\ ret.value = <<<<9>>, BigOfInt(7)>>


-----------------------------------------------------------------------------
(* Properties of the coder trees the dispatcher builds *)

\* the dynamic flag of coder and of every coder below it is the one the
\* rule gives
RECURSIVE DynamicRule(_)
DynamicRule(coder) ==
    CASE coder.kind \in {"address", "bool", "number", "fixedbytes", "null"} ->
            ~coder.dynamic
      [] coder.kind \in {"bytes", "string"} -> coder.dynamic
      [] coder.kind = "tuple" ->
            /\ coder.dynamic <=> \E i \in 1..Len(coder.coders) : coder.coders[i].dynamic
            /\ \A i \in 1..Len(coder.coders) : DynamicRule(coder.coders[i])
      [] coder.kind = "array" ->
            /\ coder.dynamic <=> (coder.length = -1 \/ coder.coder.dynamic)
            /\ DynamicRule(coder.coder)

\* C11: in every coder tree the dispatcher has built for a call, scalar
\* coders are not dynamic, bytes and string are, a tuple is dynamic iff a
\* child is, and an array iff it is unbounded or its element is.
C11_DynamicRule ==
    \A i \in 1..Len(ret.coders) : DynamicRule(ret.coders[i])

\* string[2], built for a call, is dynamic through its element
C11_Witness ==
    /\ pc = "done"
    /\ call.types = <<ArrayType(T_string, 2)>>
    /\ ret.coders = <<ArrayCoder(StringCoder, 2)>>
    /\ ret.coders[1].dynamic


-----------------------------------------------------------------------------
(* Properties of the scalar coders *)

\* the carry out of position i when the big-endian byte sequences a and b,
\* of one length, are added
RECURSIVE AddCarry(_, _, _)
AddCarry(a, b, i) ==
    IF i > Len(a) THEN 0
    ELSE (a[i] + b[i] + AddCarry(a, b, i + 1)) \div 256

\* a + b = 2^(8 Len(a)): every byte of the sum is zero and one is carried out
SumIsPowerOfLength(a, b) ==
    /\ AddCarry(a, b, 1) = 1
    /\ \A i \in 1..Len(a) : (a[i] + b[i] + AddCarry(a, b, i + 1)) % 256 = 0

\* the word NumberCoder.encode appended
WrittenWord == SubSeq(ret.data, Len(call.writer) + 1, Len(ret.data))

\* the low WordSize bytes of the magnitude of the value of the call
Magnitude == SubSeq(call.value.mag, BigLen - WordSize + 1, BigLen)

\* C12: NumberCoder.encode of an accepted value appends exactly one word.
\* For a value >= 0 the word is the value, big-endian, and the bytes above
\* the declared size are zero; for a value < 0 the word plus the magnitude
\* of the value is 2^256 (the two's complement over the whole word), and
\* the bytes above the declared size are 0xff.
C12_ScalarWireFormat ==
    (pc = "done" /\ ret.op = "NumberCoder.encode" /\ ret.err = NoError) =>
        LET high == WordSize - call.coder.size IN
        /\ Len(ret.data) = Len(call.writer) + WordSize
        /\ SubSeq(ret.data, 1, Len(call.writer)) = call.writer
        /\ ~call.value.neg =>
                /\ WrittenWord = Magnitude
                /\ \A i \in 1..high : WrittenWord[i] = 0
        /\ call.value.neg =>
                /\ SumIsPowerOfLength(WrittenWord, Magnitude)
                /\ \A i \in 1..high : WrittenWord[i] = 255

\* -2^15 as int16, after a word already written: thirty bytes 0xff, 0x80, 0
C12_Witness ==
    /\ pc = "done"
    /\ ret.op = "NumberCoder.encode"
    /\ call.coder = NumberCoder(2, TRUE)
    /\ call.value = BigNegate(BigPow2(15))
    /\ call.writer = Ones(WordSize)
    /\ WrittenWord = Ones(WordSize - 2) \o <<128, 0>>


-----------------------------------------------------------------------------
(* AddressCoder.decode and FixedBytesCoder on their own: decode of any     *)
(* word (the high and the low bytes drawn apart), encode of inputs of      *)
(* every length around each size                                           *)

\* the bytes above the address in a word
HighParts ==
    {Zeros(WordSize - AddressLen), Ones(WordSize - AddressLen),
     Count(WordSize - AddressLen)}
    \cup {[i \in 1..(WordSize - AddressLen) |-> IF i = k THEN 1 ELSE 0] :
            k \in 1..(WordSize - AddressLen)}

LowParts == {Zeros(AddressLen), Ones(AddressLen), Count(AddressLen), AddrBytes}

ScalarCall(op, coder, value, writer, word) ==
    [op |-> op, coder |-> coder, value |-> value, writer |-> writer, word |-> word]

\* the lengths of the inputs tried with a size
InputLengths(size) == {0, size - 1, size, size + 1, WordSize, WordSize + 1}

InitScalar ==
    /\ ModuleInit
    /\ \/ \E high \in HighParts, low \in LowParts :
             call = ScalarCall("AddressCoder.decode", AddressCoder, <<>>, <<>>,
                               high \o low)
       \/ \E size \in 1..WordSize, writer \in {<<>>, Ones(WordSize)} :
          \E n \in InputLengths(size) :
             call = ScalarCall("FixedBytesCoder.encode", FixedBytesCoder(size),
                               Count(n), writer, <<>>)
       \/ \E size \in 1..WordSize, word \in {Count(WordSize), Ones(WordSize)} :
             call = ScalarCall("FixedBytesCoder.decode", FixedBytesCoder(size),
                               <<>>, <<>>, word)

\* coder.decode(reader) on an AddressCoder, the reader at a word
AddressDecode ==
    /\ pc = "call"
    /\ call.op = "AddressCoder.decode"
    /\ LET dec == AddressCoder_decode(Reader(call.word, FALSE, defaultMaxInflation))
       IN  ret' = Returned(call.op, dec.err, <<call.coder>>, call.word,
                           dec.value, dec.reader.read, dec.reader.extent)
    /\ pc' = "done"
    /\ UNCHANGED <<defaultMaxInflation, defaultCoder, call>>

\* coder.encode(writer, value) on a FixedBytesCoder
FixedBytesEncode ==
    /\ pc = "call"
    /\ call.op = "FixedBytesCoder.encode"
    /\ LET enc == FixedBytesCoder_encode(call.coder, call.writer, call.value)
       IN  ret' = Returned(call.op, enc.err, <<call.coder>>, enc.writer, <<>>, 0, 0)
    /\ pc' = "done"
    /\ UNCHANGED <<defaultMaxInflation, defaultCoder, call>>

\* coder.decode(reader) on a FixedBytesCoder, the reader at a word
FixedBytesDecode ==
    /\ pc = "call"
    /\ call.op = "FixedBytesCoder.decode"
    /\ LET dec == FixedBytesCoder_decode(call.coder,
                                         Reader(call.word, FALSE, defaultMaxInflation))
       IN  ret' = Returned(call.op, dec.err, <<call.coder>>, call.word,
                           dec.value, dec.reader.read, dec.reader.extent)
    /\ pc' = "done"
    /\ UNCHANGED <<defaultMaxInflation, defaultCoder, call>>

NextScalar == AddressDecode \/ FixedBytesEncode \/ FixedBytesDecode

SpecScalar == InitScalar /\ [][NextScalar]_vars

C14_FixedBytes ==
    /\ (pc = "done" /\ ret.op = "FixedBytesCoder.encode") =>
            IF Len(call.value) # call.coder.size
            THEN /\ ret.err = makeError("incorrect data length", "INVALID_ARGUMENT")
                 /\ ret.data = call.writer
            ELSE /\ ret.err = NoError
                 /\ ret.data = call.writer \o call.value
                                  \o Zeros(WordSize - call.coder.size)
    /\ (pc = "done" /\ ret.op = "FixedBytesCoder.decode") =>
            /\ ret.err = NoError
            /\ ret.value = SubSeq(call.word, 1, call.coder.size)

\* three bytes for bytes4 were refused, the word written before untouched
C14_Witness ==
    /\ pc = "done"
    /\ ret.op = "FixedBytesCoder.encode"
    /\ call.coder = FixedBytesCoder(4)
    /\ call.value = <<1, 2, 3>>
    /\ call.writer = Ones(WordSize)
    /\ ret.err.message = "incorrect data length"
    /\ ret.data = Ones(WordSize)


-----------------------------------------------------------------------------
(* The public operations in sequence: a call of encode, decode or          *)
(* getDefaultValue, made once and then again with the same arguments,      *)
(* with _setDefaultMaxInflation and defaultAbiCoder before and between     *)

\* call.first keeps what the first of the two calls returned, call.factor
\* the defaultMaxInflation it ran under
RepeatedCall(op, types, values, data, loose) ==
    [op |-> op, types |-> types, values |-> values, data |-> data,
     loose |-> loose, first |-> NotRun, factor |-> 0]

InitRepeated ==
    /\ ModuleInit
    /\ \/ \E at \in TypedLists :
             call = RepeatedCall("encode", TypesOf(SingleUniverse, at),
                                 ValuesOf(SingleUniverse, at), <<>>, FALSE)
       \/ \E at \in TypedLists :
             call = RepeatedCall("getDefaultValue", TypesOf(SingleUniverse, at),
                                 <<>>, <<>>, FALSE)
       \/ \E i \in 1..Len(DecodeUniverse), loose \in BOOLEAN :
             LET b == DecodeUniverse[i] IN
             \E n \in {Len(b.data) - 1, Len(b.data)} :
                call = RepeatedCall("decode", b.types, <<>>, SubSeq(b.data, 1, n), loose)

\* AbiCoder.defaultAbiCoder(): the instance is made by the first call
DefaultAbiCoder ==
    /\ pc \in {"call", "again"}
    /\ defaultCoder' = IF defaultCoder = "null" THEN "AbiCoder" ELSE defaultCoder
    /\ UNCHANGED <<defaultMaxInflation, call, ret, pc>>

\* what the first of the two calls leaves in call, and where each call leads
Repeated(result) ==
    /\ call' = IF pc = "call"
               THEN [call EXCEPT !.first = result, !.factor = defaultMaxInflation]
               ELSE call
    /\ pc' = IF pc = "call" THEN "again" ELSE "done"

\* abiCoder.encode(types, values), the first or the second time
EncodeRepeated ==
    /\ pc \in {"call", "again"}
    /\ call.op = "encode"
    /\ ret' = AbiCoder_encode(call.types, call.values)
    /\ Repeated(ret')
    /\ UNCHANGED <<defaultMaxInflation, defaultCoder>>

\* abiCoder.getDefaultValue(types), the first or the second time
GetDefaultValueRepeated ==
    /\ pc \in {"call", "again"}
    /\ call.op = "getDefaultValue"
    /\ ret' = AbiCoder_getDefaultValue(call.types)
    /\ Repeated(ret')
    /\ UNCHANGED <<defaultMaxInflation, defaultCoder>>

\* the mutant of decode that puts the initial factor back after its use
DecodeRepeated_resetsFactor ==
    /\ pc \in {"call", "again"}
    /\ call.op = "decode"
    /\ ret' = AbiCoder_decode(call.types, call.data, call.loose, defaultMaxInflation)
    /\ Repeated(ret')
    /\ defaultMaxInflation' = InitialMaxInflation
    /\ UNCHANGED defaultCoder

\* abiCoder.decode(types, data, loose), the first or the second time
DecodeRepeated ==
    /\ pc \in {"call", "again"}
    /\ call.op = "decode"
    /\ ret' = AbiCoder_decode(call.types, call.data, call.loose, defaultMaxInflation)
    /\ Repeated(ret')
    /\ UNCHANGED <<defaultMaxInflation, defaultCoder>>

NextRepeated ==
    \/ SetDefaultMaxInflation
    \/ SetDefaultMaxInflationInvalid
    \/ DefaultAbiCoder
    \/ EncodeRepeated
    \/ GetDefaultValueRepeated
    \/ DecodeRepeated

SpecRepeated == InitRepeated /\ [][NextRepeated]_vars

C15_Step ==
    pc' # pc =>
        /\ defaultMaxInflation' = defaultMaxInflation
        /\ defaultCoder' = defaultCoder
        /\ (/\ pc' = "done"
            /\ call.op = "decode" => defaultMaxInflation = call.factor)
                => ret' = call.first

-----------------------------------------------------------------------------
(* Sending a transaction: sendTransactionInternal and, inside each attempt, *)
(* sendSerializedTransaction with its wait for the receipt.  call is the   *)
(* frame of the send (options, locals, the clock and the account's counts  *)
(* at the node); a step is the code between two awaits.  A message is a    *)
(* sequence of one-character strings.                                      *)

\* an option that was not given
undefined == -1

\* String.prototype.toLowerCase, a character at a time
toLowerCaseChar(c) ==
    CASE
         c = "A" -> "a"
      [] c = "B" -> "b"
      [] c = "C" -> "c"
      [] c = "D" -> "d"
      [] c = "E" -> "e"
      [] c = "F" -> "f"
      [] c = "G" -> "g"
      [] c = "H" -> "h"
      [] c = "I" -> "i"
      [] c = "J" -> "j"
      [] c = "K" -> "k"
      [] c = "L" -> "l"
      [] c = "M" -> "m"
      [] c = "N" -> "n"
      [] c = "O" -> "o"
      [] c = "P" -> "p"
      [] c = "Q" -> "q"
      [] c = "R" -> "r"
      [] c = "S" -> "s"
      [] c = "T" -> "t"
      [] c = "U" -> "u"
      [] c = "V" -> "v"
      [] c = "W" -> "w"
      [] c = "X" -> "x"
      [] c = "Y" -> "y"
      [] c = "Z" -> "z"
      [] OTHER -> c

toLowerCase(str) == [i \in 1..Len(str) |-> toLowerCaseChar(str[i])]

\* String.prototype.includes
includes(str, sub) ==
    \E i \in 1..(Len(str) - Len(sub) + 1) : SubSeq(str, i, i + Len(sub) - 1) = sub

Msg_nonce_too_low ==
    <<"n", "o", "n", "c", "e", " ", "t", "o", "o", " ", "l", "o", "w">>

Msg_replacement_underpriced ==
    <<"r", "e", "p", "l", "a", "c", "e", "m", "e", "n", "t", " ", "t", "r",
      "a", "n", "s", "a", "c", "t", "i", "o", "n", " ", "u", "n", "d", "e",
      "r", "p", "r", "i", "c", "e", "d">>

NonceCollisionErrorMessages == <<Msg_nonce_too_low, Msg_replacement_underpriced>>

\* the decimal digits of a number n >= 0, as "" + n gives them
RECURSIVE NumberToString(_)
NumberToString(n) ==
    LET digit == <<"0", "1", "2", "3", "4", "5", "6", "7", "8", "9">>[(n % 10) + 1]
    IN  IF n < 10 THEN <<digit>> ELSE NumberToString(n \div 10) \o <<digit>>

\* "Timed out after " + options.receiptWaitTimeout + " milliseconds."
TimedOutMessage(receiptWaitTimeout) ==
    <<"T", "i", "m", "e", "d", " ", "o", "u", "t", " ", "a", "f", "t", "e",
      "r", " ">>
    \o NumberToString(receiptWaitTimeout) \o
    <<" ", "m", "i", "l", "l", "i", "s", "e", "c", "o", "n", "d", "s", ".">>

\* new Error(message)
Error(message) == [code |-> "Error", message |-> message]

NoThrow == [code |-> "NONE", message |-> <<>>]

\* the errors the node answers a request with
Msg_Nonce_too_low_capital ==
    <<"N", "o", "n", "c", "e", " ", "t", "o", "o", " ", "l", "o", "w">>

Msg_rpc_underpriced ==
    <<"R", "P", "C", " ", "E", "r", "r", "o", "r", ":", " ", "R", "e", "p",
      "l", "a", "c", "e", "m", "e", "n", "t", " ", "t", "r", "a", "n", "s",
      "a", "c", "t", "i", "o", "n", " ", "u", "n", "d", "e", "r", "p", "r",
      "i", "c", "e", "d">>

Msg_insufficient_funds ==
    <<"i", "n", "s", "u", "f", "f", "i", "c", "i", "e", "n", "t", " ", "f",
      "u", "n", "d", "s">>

Msg_nonce_too_high ==
    <<"n", "o", "n", "c", "e", " ", "t", "o", "o", " ", "h", "i", "g", "h">>

NodeErrors ==
    {Error(Msg_nonce_too_low), Error(Msg_Nonce_too_low_capital),
     Error(Msg_rpc_underpriced), Error(Msg_insufficient_funds),
     Error(Msg_nonce_too_high)}

\* the mutant that compares the message as it is
isNonceError_caseSensitive(ex) ==
    \E k \in 1..Len(NonceCollisionErrorMessages) :
        includes(ex.message, NonceCollisionErrorMessages[k])

\* the loop of the catch block over NonceCollisionErrorMessages
isNonceError(ex) ==
    LET errMessageLower == toLowerCase(ex.message)
    IN  \E k \in 1..Len(NonceCollisionErrorMessages) :
            includes(errMessageLower, NonceCollisionErrorMessages[k])

\* the wait between two polls, in milliseconds
PollPause == 1000

\* the mutant that times out when the time is just reached
receiptWaitTimedOut_atLimit(options, now, startTime) ==
    /\ options.receiptWaitTimeout # undefined
    /\ options.receiptWaitTimeout > 0
    /\ now - startTime >= options.receiptWaitTimeout

\* the condition of "Check timeout"
receiptWaitTimedOut(options, now, startTime) ==
    /\ options.receiptWaitTimeout # undefined
    /\ options.receiptWaitTimeout > 0
    /\ now - startTime > options.receiptWaitTimeout

MaxAttempts == 2

MaxTime == 3000

MaxCount == 2

\* the time a request or a late timer may take, in milliseconds
Latencies == {0, 500}

TransactionSendingOptions ==
    [nonce : {undefined, 1},
     chainId : {undefined, 1},
     receiptWaitTimeout : {undefined, 0, 1000, 1500}]

SendReturned(err, receipt) ==
    [op |-> "sendTransaction", err |-> err, receipt |-> receipt]

InitSend ==
    /\ ModuleInit
    /\ \E options \in TransactionSendingOptions, pending \in 0..1 :
          call = [op |-> "sendTransaction", options |-> options,
                  attempt |-> 0, nonce |-> undefined, startTime |-> 0,
                  nonceChanged |-> FALSE,
                  now |-> 0, pending |-> pending, latest |-> 0,
                  thrown |-> NoThrow, throws |-> 0, sent |-> <<>>]

\* the mutant of the catch block that does not look at options.nonce
Catch_retryWithNonce(frame, ex) ==
    LET retry == isNonceError(ex)
    IN  /\ call' = [frame EXCEPT !.thrown = ex, !.throws = @ + 1]
        /\ pc' = IF retry THEN "call" ELSE "done"
        /\ ret' = IF retry THEN ret ELSE SendReturned(ex, FALSE)

\* the mutant of the catch block that takes every error for a collision
Catch_retryAnyError(frame, ex) ==
    LET retry == frame.options.nonce = undefined
    IN  /\ call' = [frame EXCEPT !.thrown = ex, !.throws = @ + 1]
        /\ pc' = IF retry THEN "call" ELSE "done"
        /\ ret' = IF retry THEN ret ELSE SendReturned(ex, FALSE)

\* an attempt threw ex: the catch block of sendTransactionInternal, which
\* goes round the loop again or throws ex again
Catch(frame, ex) ==
    LET retry == frame.options.nonce = undefined /\ isNonceError(ex)
    IN  /\ call' = [frame EXCEPT !.thrown = ex, !.throws = @ + 1]
        /\ pc' = IF retry THEN "call" ELSE "done"
        /\ ret' = IF retry THEN ret ELSE SendReturned(ex, FALSE)

\* the loop of sendTransactionInternal enters an attempt; the attempt asks
\* for the network id when no chainId was given
BeginAttempt ==
    /\ pc = "call"
    /\ call.op = "sendTransaction"
    /\ call.attempt < MaxAttempts
    /\ LET frame == [call EXCEPT !.attempt = @ + 1, !.nonce = undefined] IN
       \/ /\ call' = frame
          /\ pc' = "nonce"
          /\ ret' = ret
       \/ /\ call.options.chainId = undefined
          /\ \E ex \in NodeErrors : Catch(frame, ex)
    /\ UNCHANGED <<defaultMaxInflation, defaultCoder>>

\* the nonce of the attempt: the pending transaction count when no nonce
\* was given
GetNonce ==
    /\ pc = "nonce"
    /\ \/ /\ call' = [call EXCEPT !.nonce = IF call.options.nonce = undefined
                                            THEN call.pending
                                            ELSE call.options.nonce]
          /\ pc' = "send"
          /\ ret' = ret
       \/ /\ call.options.nonce = undefined
          /\ \E ex \in NodeErrors : Catch(call, ex)
    /\ UNCHANGED <<defaultMaxInflation, defaultCoder>>

\* sendSerializedTransaction up to the loop: sendRawTransaction; sent is
\* the list of the raw transactions the node took, each known by its nonce
SendRawTransaction ==
    /\ pc = "send"
    /\ \/ /\ call' = [call EXCEPT !.startTime = call.now, !.nonceChanged = FALSE,
                                  !.sent = Append(@, call.nonce)]
          /\ pc' = "poll"
          /\ ret' = ret
       \/ \E ex \in NodeErrors : Catch(call, ex)
    /\ UNCHANGED <<defaultMaxInflation, defaultCoder>>

\* getTransactionReceipt answers: with the receipt, which is returned; or
\* with none, which after a change of the nonce is a collision
GetTransactionReceipt ==
    /\ pc = "poll"
    /\ \E d \in Latencies, receipt \in BOOLEAN :
          /\ call.now + d <= MaxTime
          /\ LET frame == [call EXCEPT !.now = @ + d] IN
             IF receipt
             THEN /\ call' = frame
                  /\ pc' = "done"
                  /\ ret' = SendReturned(NoThrow, TRUE)
             ELSE IF call.nonceChanged
             THEN Catch(frame, Error(NonceCollisionErrorMessages[1]))
             ELSE /\ call' = frame
                  /\ pc' = "pause"
                  /\ ret' = ret
    /\ UNCHANGED <<defaultMaxInflation, defaultCoder>>

\* the timer of the pause fires, and the timeout is checked
CheckTimeout ==
    /\ pc = "pause"
    /\ \E d \in Latencies :
          /\ call.now + PollPause + d <= MaxTime
          /\ LET frame == [call EXCEPT !.now = @ + PollPause + d] IN
             IF receiptWaitTimedOut(call.options, frame.now, call.startTime)
             THEN Catch(frame, Error(TimedOutMessage(call.options.receiptWaitTimeout)))
             ELSE /\ call' = frame
                  /\ pc' = "count"
                  /\ ret' = ret
    /\ UNCHANGED <<defaultMaxInflation, defaultCoder>>

\* the mutant of "Check nonce" that takes a count equal to the nonce for a
\* change
GetTransactionCount_atNonce ==
    /\ pc = "count"
    /\ \E d \in Latencies :
          /\ call.now + d <= MaxTime
          /\ call' = [call EXCEPT !.now = @ + d,
                                  !.nonceChanged = @ \/ call.latest >= call.nonce]
    /\ pc' = "poll"
    /\ UNCHANGED <<defaultMaxInflation, defaultCoder, ret>>

\* "Check nonce": getTransactionCount(accountAddress, "latest") answers
GetTransactionCount ==
    /\ pc = "count"
    /\ \E d \in Latencies :
          /\ call.now + d <= MaxTime
          /\ call' = [call EXCEPT !.now = @ + d,
                                  !.nonceChanged = @ \/ call.latest > call.nonce]
    /\ pc' = "poll"
    /\ UNCHANGED <<defaultMaxInflation, defaultCoder, ret>>

\* the node: another transaction of the account comes in, or one is mined
NodeAdvances ==
    /\ call.op = "sendTransaction"
    /\ pc \in {"nonce", "poll", "count"}
    /\ \/ /\ call.pending < MaxCount
          /\ call' = [call EXCEPT !.pending = @ + 1]
       \/ /\ call.latest < call.pending
          /\ call' = [call EXCEPT !.latest = @ + 1]
    /\ UNCHANGED <<defaultMaxInflation, defaultCoder, ret, pc>>

NextSend ==
    \/ BeginAttempt
    \/ GetNonce
    \/ SendRawTransaction
    \/ GetTransactionReceipt
    \/ CheckTimeout
    \/ GetTransactionCount
    \/ NodeAdvances

SpecSend == InitSend /\ [][NextSend]_vars


-----------------------------------------------------------------------------
(* Properties of sending *)

\* an attempt threw in this step
Threw == call'.throws = call.throws + 1

\* some part of the message is, but for the case of its letters, one of
\* the two texts
Collision(message) ==
    \E text \in {Msg_nonce_too_low, Msg_replacement_underpriced} :
        \E i \in 1..(Len(message) - Len(text) + 1) :
            toLowerCase(SubSeq(message, i, i + Len(text) - 1)) = text

C16_Step ==
    /\ Threw =>
          IF call.options.nonce = undefined /\ Collision(call'.thrown.message)
          THEN /\ pc' = "call"
               /\ ret' = NotRun
          ELSE /\ pc' = "done"
               /\ ret' = SendReturned(call'.thrown, FALSE)
    /\ (pc = "nonce" /\ pc' = "send" /\ call.options.nonce = undefined) =>
          call'.nonce = call.pending
    /\ (pc' = "done" /\ ret'.err = NoThrow) =>
          /\ pc = "poll"
          /\ ret'.receipt
    /\ pc = "done" => call'.attempt = call.attempt

\* C16: with no options.nonce, an attempt that fails with a message that
\* contains "nonce too low" or "replacement transaction underpriced" in any
\* case of letters is followed by a new attempt, which takes its nonce from
\* the pending transaction count of that moment; every other error, and
\* every error when options.nonce is given, is thrown on and no attempt
\* follows; sendTransaction returns only with the receipt of a poll.
C16_NonceRetry == [][C16_Step]_vars

\* the first attempt was refused with "Nonce too low", the second read the
\* count again, which had moved on, and brought the receipt
C16_Witness ==
    /\ pc = "done"
    /\ call.op = "sendTransaction"
    /\ call.options.nonce = undefined
    /\ call.attempt = 2
    /\ call.thrown = Error(Msg_Nonce_too_low_capital)
    /\ call.nonce = 2
    /\ ret = SendReturned(NoThrow, TRUE)

Msg_Timed_out ==
    <<"T", "i", "m", "e", "d", " ", "o", "u", "t">>

IsTimedOut(ex) ==
    /\ Len(ex.message) >= Len(Msg_Timed_out)
    /\ SubSeq(ex.message, 1, Len(Msg_Timed_out)) = Msg_Timed_out

\* the wait for the receipt is given a time, and more than it has passed
\* since the transaction was sent
Late ==
    /\ call.options.receiptWaitTimeout # undefined
    /\ call.options.receiptWaitTimeout > 0
    /\ call'.now - call.startTime > call.options.receiptWaitTimeout

C17_Step ==
    /\ (Threw /\ IsTimedOut(call'.thrown)) => (pc = "pause" /\ Late)
    /\ (pc = "pause" /\ pc' # pc /\ Late) =>
          /\ Threw
          /\ call'.thrown = Error(TimedOutMessage(call.options.receiptWaitTimeout))
          /\ pc' = "done"
          /\ ret' = SendReturned(call'.thrown, FALSE)
    /\ (pc = "poll" /\ Threw) =>
          /\ call.nonceChanged
          /\ call'.thrown = Error(Msg_nonce_too_low)

C23_SingleAttempt ==
    [][call.options.nonce # undefined =>
          /\ Threw =>
                /\ pc' = "done"
                /\ ret' = SendReturned(call'.thrown, FALSE)
          /\ call'.attempt <= 1
          /\ Len(call'.sent) <= 1
          /\ pc' = "done" => call'.attempt = 1
      ]_vars

\* options.nonce is 1; the transaction was broadcast, the count was seen to
\* pass the nonce, the receipt did not come: "nonce too low" is thrown to
\* the caller after one attempt
C23_Witness ==
    /\ pc = "done"
    /\ call.op = "sendTransaction"
    /\ call.options.nonce = 1
    /\ call.attempt = 1
    /\ Len(call.sent) = 1
    /\ call.nonceChanged
    /\ ret = SendReturned(Error(Msg_nonce_too_low), FALSE)


C24_Step ==
    /\ (pc = "count" /\ pc' # pc) =>
          /\ pc' = "poll"
          /\ call'.nonceChanged = (call.latest > call.nonce)
    /\ (pc = "poll" /\ pc' # pc /\ call.nonceChanged) =>
          \/ /\ pc' = "done"
             /\ ret' = SendReturned(NoThrow, TRUE)
          \/ /\ Threw
             /\ call'.thrown = Error(Msg_nonce_too_low)
             /\ IF call.options.nonce = undefined
                THEN pc' = "call" /\ ret' = NotRun
                ELSE pc' = "done" /\ ret' = SendReturned(call'.thrown, FALSE)
    /\ (pc = "poll" /\ pc' # pc /\ ~call.nonceChanged) =>
          \/ /\ pc' = "done"
             /\ ret' = SendReturned(NoThrow, TRUE)
          \/ /\ pc' = "pause"
             /\ ~Threw
    /\ (pc = "pause" /\ pc' # pc) => call'.now >= call.now + PollPause
    /\ pc = "count" => ~call.nonceChanged

-----------------------------------------------------------------------------
(* Events: interpretLog, and parseTransactionLogs and findEvent of the     *)
(* SmartContractInterface.  An ABI entry is [type, name, inputs], inputs   *)
(* the types of its parameters; a log is [topics, data].                   *)

JsonFragment(type, name, inputs) == [type |-> type, name |-> name, inputs |-> inputs]

\* entry.name + "(" + entry.inputs.map(input => input.type).join(",") + ")":
\* the name and the types, which the string holds apart
Signature(name, inputs) == [name |-> name, inputs |-> inputs]

\* keccak256 of the signature, taken to have no collisions
keccak256(signature) == [keccak256 |-> signature]

TransactionLog(topics, data) == [topics |-> topics, data |-> data]

SmartContractEvent(name, signature, parameters, log) ==
    [isNull |-> FALSE, name |-> name, signature |-> signature,
     parameters |-> parameters, log |-> log]

\* null, where an event is expected
null ==
    [isNull |-> TRUE, name |-> "", signature |-> Signature("", <<>>),
     parameters |-> <<>>, log |-> TransactionLog(<<>>, <<>>)]

\* an ABI: a function, two events, and a function after them
ContractAbi ==
    <<JsonFragment("function", "burn", <<T_uint8>>),
      JsonFragment("event", "Sent", <<T_uint8, T_bool>>),
      JsonFragment("event", "Note", <<T_string>>),
      JsonFragment("function", "Sent", <<T_bool>>)>>

Topic(name, inputs) == keccak256(Signature(name, inputs))

\* a log, and what the ABI library answers when asked to decode it
Answer(log, err, value) == [log |-> log, result |-> [err |-> err, value |-> value]]

\* logs: without topics; of an event the ABI does not have; with the hash
\* of a function of the ABI; of Sent, whole and cut short; of Note, whole
\* and with a length no data can hold
LogUniverse ==
    <<Answer(TransactionLog(<<>>, Word(5) \o Word(1)), BufferUnderrun, <<>>),
      Answer(TransactionLog(<<Topic("Other", <<T_uint8>>)>>, Word(5)),
             BufferUnderrun, <<>>),
      Answer(TransactionLog(<<Topic("burn", <<T_uint8>>)>>, Word(5)),
             BufferUnderrun, <<>>),
      Answer(TransactionLog(<<Topic("Sent", <<T_uint8, T_bool>>), Word(9)>>,
                            Word(5) \o Word(1)),
             NoError, <<BigOfInt(5), TRUE>>),
      Answer(TransactionLog(<<Topic("Sent", <<T_uint8, T_bool>>)>>, Word(5)),
             BufferUnderrun, <<>>),
      Answer(TransactionLog(<<Topic("Note", <<T_string>>)>>,
                            Word(32) \o Word(2) \o Padded(Str_hi)),
             NoError, <<Str_hi>>),
      Answer(TransactionLog(<<Topic("Note", <<T_string>>)>>,
                            Word(32) \o Word(200) \o Padded(Str_hi)),
             BufferUnderrun, <<>>)>>

\* contractInterface.decodeEventLog(name, data, topics): the answer of the
\* library for the log, a Result or an error thrown
decodeEventLog(eventEntry, log) ==
    LET k == CHOOSE k \in 1..Len(LogUniverse) : LogUniverse[k].log = log
    IN  LogUniverse[k].result

\* normalizeABIResult(data): the values one by one
normalizeABIResult(i) == [k \in 1..Len(i) |-> i[k]]

\* the loop of interpretLog over the ABI, from entry k on: the index of the
\* first event whose hash is the topic, or 0
RECURSIVE findEntry(_, _, _)
findEntry(abi, hashTopic, k) ==
    IF k > Len(abi) THEN 0
    ELSE IF abi[k].type # "event" THEN findEntry(abi, hashTopic, k + 1)
    ELSE IF keccak256(Signature(abi[k].name, abi[k].inputs)) = hashTopic THEN k
    ELSE findEntry(abi, hashTopic, k + 1)

interpretLog(log, abi) ==
    IF Len(log.topics) = 0 THEN null
    ELSE LET k == findEntry(abi, log.topics[1], 1) IN
         IF k = 0 THEN null
         ELSE LET data == decodeEventLog(abi[k], log) IN
              IF data.err # NoError THEN null
              ELSE SmartContractEvent(abi[k].name,
                                      Signature(abi[k].name, abi[k].inputs),
                                      normalizeABIResult(data.value), log)

\* the mutant that keeps what interpretLog returns, null or not
RECURSIVE parseTransactionLogs_keepNull(_, _)
parseTransactionLogs_keepNull(logs, abi) ==
    IF logs = <<>> THEN <<>>
    ELSE <<interpretLog(Head(logs), abi)>>
            \o parseTransactionLogs_keepNull(Tail(logs), abi)

RECURSIVE parseTransactionLogs(_, _)
parseTransactionLogs(logs, abi) ==
    IF logs = <<>> THEN <<>>
    ELSE LET event == interpretLog(Head(logs), abi)
         IN  (IF event.isNull THEN <<>> ELSE <<event>>)
                \o parseTransactionLogs(Tail(logs), abi)

\* the loop of findEvent over the events, from event k on
RECURSIVE findFirst(_, _, _)
findFirst(events, name, k) ==
    IF k > Len(events) THEN null
    ELSE IF events[k].name = name THEN events[k]
    ELSE findFirst(events, name, k + 1)

findEvent(logs, name, abi) == findFirst(parseTransactionLogs(logs, abi), name, 1)

MaxLogs == 3

LogLists == UNION {SeqsOfLen(1..Len(LogUniverse), n) : n \in 0..MaxLogs}

LogsOf(at) == [i \in 1..Len(at) |-> LogUniverse[at[i]].log]

EventNames == {"Sent", "Note", "burn", "Missing"}

EventsCall(op, logs, name) == [op |-> op, logs |-> logs, name |-> name]

EventsReturned(op, event, events) == [op |-> op, event |-> event, events |-> events]

InitEvents ==
    /\ ModuleInit
    /\ \/ \E i \in 1..Len(LogUniverse) :
             call = EventsCall("interpretLog", <<LogUniverse[i].log>>, "")
       \/ \E at \in LogLists : call = EventsCall("parseTransactionLogs", LogsOf(at), "")
       \/ \E at \in LogLists, name \in EventNames :
             call = EventsCall("findEvent", LogsOf(at), name)

\* interpretLog(log, abi, contractInterface)
InterpretLog ==
    /\ pc = "call"
    /\ call.op = "interpretLog"
    /\ ret' = EventsReturned(call.op, interpretLog(call.logs[1], ContractAbi), <<>>)
    /\ pc' = "done"
    /\ UNCHANGED <<defaultMaxInflation, defaultCoder, call>>

\* smartContractInterface.parseTransactionLogs(logs)
ParseTransactionLogs ==
    /\ pc = "call"
    /\ call.op = "parseTransactionLogs"
    /\ ret' = EventsReturned(call.op, null, parseTransactionLogs(call.logs, ContractAbi))
    /\ pc' = "done"
    /\ UNCHANGED <<defaultMaxInflation, defaultCoder, call>>

\* smartContractInterface.findEvent(receipt, name), logs the receipt's logs
FindEvent ==
    /\ pc = "call"
    /\ call.op = "findEvent"
    /\ ret' = EventsReturned(call.op, findEvent(call.logs, call.name, ContractAbi), <<>>)
    /\ pc' = "done"
    /\ UNCHANGED <<defaultMaxInflation, defaultCoder, call>>

NextEvents == InterpretLog \/ ParseTransactionLogs \/ FindEvent

SpecEvents == InitEvents /\ [][NextEvents]_vars

\* the log has a first topic, that is the hash of an event of the ABI, and
\* the library decodes it
Decodable(log) ==
    /\ log.topics # <<>>
    /\ \E k \in 1..Len(ContractAbi) :
          /\ ContractAbi[k].type = "event"
          /\ log.topics[1] = Topic(ContractAbi[k].name, ContractAbi[k].inputs)
    /\ \E i \in 1..Len(LogUniverse) :
          /\ LogUniverse[i].log = log
          /\ LogUniverse[i].result.err = NoError

\* the place in the ABI of the event whose hash the first topic is
EntryOf(log) ==
    CHOOSE k \in 1..Len(ContractAbi) :
        /\ ContractAbi[k].type = "event"
        /\ log.topics[1] = Topic(ContractAbi[k].name, ContractAbi[k].inputs)

DecodableLogs == SelectSeq(call.logs, Decodable)

-----------------------------------------------------------------------------
(* The output conversion helpers outputToAddress, outputToQuantity,        *)
(* outputToBytes and outputToTuple.  An output parameter is [type, value]: *)
(* what typeof, instanceof Buffer and Array.isArray tell of it, and its    *)
(* value (a string is a sequence of characters, a Buffer one of bytes, a   *)
(* number is given as twice its value, so that 1.5 is a number).           *)

Param(type, value) == [type |-> type, value |-> value]

HexChars ==
    <<"0", "1", "2", "3", "4", "5", "6", "7", "8", "9", "a", "b", "c", "d", "e", "f">>

IsHexChar(c) == \E k \in 1..Len(HexChars) : HexChars[k] = c

HexCharValue(c) == (CHOOSE k \in 1..Len(HexChars) : HexChars[k] = c) - 1

Str_0x == <<"0", "x">>

\* hex.substr(0, 2)
substr02(hex) == SubSeq(hex, 1, IF Len(hex) < 2 THEN Len(hex) ELSE 2)

hexWithPrefix(_hex) ==
    LET hex == toLowerCase(_hex)
    IN  IF substr02(hex) # Str_0x THEN Str_0x \o hex ELSE hex

hexNoPrefix(_hex) ==
    LET hex == toLowerCase(_hex)
    IN  IF substr02(hex) # Str_0x THEN hex ELSE SubSeq(hex, 3, Len(hex))

\* Buffer.from(hex, "hex"): the bytes of the pairs of hex digits, up to the
\* first pair that is none
RECURSIVE Buffer_fromHex(_)
Buffer_fromHex(hex) ==
    IF Len(hex) < 2 \/ ~IsHexChar(hex[1]) \/ ~IsHexChar(hex[2]) THEN <<>>
    ELSE <<16 * HexCharValue(hex[1]) + HexCharValue(hex[2])>>
            \o Buffer_fromHex(SubSeq(hex, 3, Len(hex)))

\* buf.toString("hex")
RECURSIVE Buffer_toStringHex(_)
Buffer_toStringHex(buf) ==
    IF buf = <<>> THEN <<>>
    ELSE <<HexChars[(buf[1] \div 16) + 1], HexChars[(buf[1] % 16) + 1]>>
            \o Buffer_toStringHex(Tail(buf))

Msg_Invalid_address ==
    <<"I", "n", "v", "a", "l", "i", "d", " ", "a", "d", "d", "r", "e", "s",
      "s">>

Converted(op, err, value) == [op |-> op, err |-> err, value |-> value]

\* parseAddress(a) of a string
parseAddress(a) ==
    LET buf == Buffer_fromHex(hexNoPrefix(a))
    IN  IF Len(buf) # AddressLen
        THEN Converted("parseAddress", Error(Msg_Invalid_address \o <<":", " ">> \o a), <<>>)
        ELSE Converted("parseAddress", NoThrow, hexWithPrefix(Buffer_toStringHex(buf)))

outputToAddress(o) ==
    IF o.type = "string" THEN Converted("outputToAddress", NoThrow, o.value)
    ELSE IF o.type = "Buffer"
    THEN [parseAddress(hexWithPrefix(Buffer_toStringHex(o.value)))
            EXCEPT !.op = "outputToAddress"]
    ELSE Converted("outputToAddress", Error(Msg_Invalid_address), <<>>)

AllDecimal(str) == \A i \in 1..Len(str) : str[i] \in Digits

AllHex(str) == \A i \in 1..Len(str) : IsHexChar(toLowerCaseChar(str[i]))

\* the number of a string of hex digits
RECURSIVE parseHex(_)
parseHex(str) ==
    IF str = <<>> THEN 0
    ELSE 16 * parseHex(SubSeq(str, 1, Len(str) - 1))
            + HexCharValue(toLowerCaseChar(str[Len(str)]))

\* BigInt(string): the empty string is 0n, decimal digits and 0x with hex
\* digits are read, everything else is a SyntaxError
BigInt_ofString(str) ==
    IF str = <<>> THEN Converted("BigInt", NoThrow, 0)
    ELSE IF AllDecimal(str) THEN Converted("BigInt", NoThrow, parseDigits(str))
    ELSE IF Len(str) > 2 /\ SubSeq(str, 1, 2) = Str_0x /\ AllHex(SubSeq(str, 3, Len(str)))
    THEN Converted("BigInt", NoThrow, parseHex(SubSeq(str, 3, Len(str))))
    ELSE Converted("BigInt", [code |-> "SyntaxError", message |-> <<>>], 0)

\* BigInt(number): a RangeError unless the number is an integer
BigInt_ofNumber(twice) ==
    IF twice % 2 # 0
    THEN Converted("BigInt", [code |-> "RangeError", message |-> <<>>], 0)
    ELSE Converted("BigInt", NoThrow, twice \div 2)

outputToQuantity(o) ==
    IF o.type = "bigint" THEN Converted("outputToQuantity", NoThrow, o.value)
    ELSE IF o.type = "number"
    THEN [BigInt_ofNumber(o.value) EXCEPT !.op = "outputToQuantity"]
    ELSE IF o.type = "string"
    THEN [BigInt_ofString(o.value) EXCEPT !.op = "outputToQuantity"]
    ELSE Converted("outputToQuantity", NoThrow, 0)

outputToBytes(o) ==
    IF o.type = "string"
    THEN Converted("outputToBytes", NoThrow, Buffer_fromHex(hexNoPrefix(o.value)))
    ELSE IF o.type = "Buffer" THEN Converted("outputToBytes", NoThrow, o.value)
    ELSE Converted("outputToBytes", NoThrow, <<>>)

outputToTuple(o) ==
    IF o.type = "array" THEN Converted("outputToTuple", NoThrow, o.value)
    ELSE Converted("outputToTuple", NoThrow, <<>>)

Str_address ==
    Str_0x \o [i \in 1..(2 * AddressLen) |->
                 IF i = 2 * AddressLen - 1 THEN "2"
                 ELSE IF i = 2 * AddressLen THEN "A" ELSE "0"]

\* output parameters of every kind
OutputParams ==
    <<Param("string", Str_address),
      Param("string", <<"0", "x", "1", "2", "3", "4">>),
      Param("string", <<"z", "z">>),
      Param("string", <<"1", "2">>),
      Param("string", <<>>),
      Param("Buffer", Zeros(AddressLen - 1) \o <<42>>),
      Param("Buffer", <<18, 52>>),
      Param("Buffer", <<>>),
      Param("bigint", 7),
      Param("number", 10),
      Param("number", 3),
      Param("boolean", TRUE),
      Param("boolean", FALSE),
      Param("null", <<>>),
      Param("undefined", <<>>),
      Param("array", <<Param("bigint", 1), Param("string", <<"a">>)>>),
      Param("array", <<>>),
      Param("object", <<>>)>>

OutputHelpers == {"outputToAddress", "outputToQuantity", "outputToBytes", "outputToTuple"}

InitOutput ==
    /\ ModuleInit
    /\ \E op \in OutputHelpers, i \in 1..Len(OutputParams) :
          call = [op |-> op, o |-> OutputParams[i]]

OutputToAddress ==
    /\ pc = "call"
    /\ call.op = "outputToAddress"
    /\ ret' = outputToAddress(call.o)
    /\ pc' = "done"
    /\ UNCHANGED <<defaultMaxInflation, defaultCoder, call>>

OutputToQuantity ==
    /\ pc = "call"
    /\ call.op = "outputToQuantity"
    /\ ret' = outputToQuantity(call.o)
    /\ pc' = "done"
    /\ UNCHANGED <<defaultMaxInflation, defaultCoder, call>>

OutputToBytes ==
    /\ pc = "call"
    /\ call.op = "outputToBytes"
    /\ ret' = outputToBytes(call.o)
    /\ pc' = "done"
    /\ UNCHANGED <<defaultMaxInflation, defaultCoder, call>>

OutputToTuple ==
    /\ pc = "call"
    /\ call.op = "outputToTuple"
    /\ ret' = outputToTuple(call.o)
    /\ pc' = "done"
    /\ UNCHANGED <<defaultMaxInflation, defaultCoder, call>>

NextOutput == OutputToAddress \/ OutputToQuantity \/ OutputToBytes \/ OutputToTuple

SpecOutput == InitOutput /\ [][NextOutput]_vars

\* the parameter is of a kind that the target type has values of: a string
\* or a Buffer of 20 bytes for an address; a bigint, an integer number or a
\* string that BigInt reads for a quantity; a string or a Buffer for bytes;
\* an array for a tuple
Parsable(op, o) ==
    CASE op = "outputToAddress" ->
            o.type = "string" \/ (o.type = "Buffer" /\ Len(o.value) = AddressLen)
      [] op = "outputToQuantity" ->
            \/ o.type = "bigint"
            \/ o.type = "number" /\ o.value % 2 = 0
            \/ o.type = "string" /\ BigInt_ofString(o.value).err = NoThrow
      [] op = "outputToBytes" -> o.type \in {"string", "Buffer"}
      [] op = "outputToTuple" -> o.type = "array"

\* C19: each of the four helpers throws when the parameter cannot be parsed
\* into the target type, and returns no default value for it.
C19_ThrowsOnUnparsable ==
    (pc = "done" /\ ret.op \in OutputHelpers /\ ~Parsable(call.op, call.o)) =>
        ret.err # NoThrow

\* outputToQuantity(true) returned 0n
C19_Witness ==
    /\ pc = "done"
    /\ ret.op = "outputToQuantity"
    /\ call.o.type = "boolean"
    /\ call.o.value
    /\ ret.err = NoThrow
    /\ ret.value = 0


-----------------------------------------------------------------------------
(* RPC_WebSocket_Provider with one connection (numConnections is 1 by      *)
(* default).  call is the provider: internalID, the requests map, the      *)
(* queue, the connection, and the PendingRequest objects made so far, each *)
(* with its timer and its promise.  A request object is known by its       *)
(* number k in call.req; 0 stands for undefined or null.                   *)

\* a value of internalID: undefined, NaN, or a number
Id(kind, n) == [kind |-> kind, n |-> n]

\* this.internalID++ : undefined and NaN give NaN
Increment(id) == IF id.kind = "number" THEN Id("number", id.n + 1) ELSE Id("NaN", 0)

\* Map.prototype.has / get / set / delete; keys are compared as SameValueZero
\* compares them, so that NaN is the key NaN
Map_has(map, key) == \E e \in map : e.key = key

Map_get(map, key) ==
    IF Map_has(map, key) THEN (CHOOSE e \in map : e.key = key).value ELSE 0

Map_delete(map, key) == {e \in map : e.key # key}

Map_set(map, key, value) == Map_delete(map, key) \cup {[key |-> key, value |-> value]}

MaxRequests == 2

NoRequest ==
    [id |-> Id("undefined", 0), sent |-> FALSE, timeout |-> undefined,
     timer |-> "none", promise |-> "new", reason |-> "", settled |-> 0]

\* new Error("Error code " + responseData.error.code + " / " + responseData.error.message)
ErrorCodeMessage(code, message) == <<"Error code ", code, " / ", message>>

TimedOutResponse == [error |-> TRUE, code |-> -1, message |-> "Timed out", result |-> ""]

\* what the node answers
NodeResponses ==
    {[error |-> FALSE, code |-> 0, message |-> "", result |-> "0x1"],
     [error |-> TRUE, code |-> -32000, message |-> "execution reverted", result |-> ""]}

\* the promise of request k is settled, if it is not yet
Settle(p, k, state, reason) ==
    IF p.req[k].promise = "pending"
    THEN [p EXCEPT !.req[k].promise = state, !.req[k].reason = reason,
                   !.req[k].settled = @ + 1]
    ELSE p

\* clearTimeout(timer), if (timer !== undefined)
ClearTimer(p, k) ==
    IF p.req[k].timer = "armed" THEN [p EXCEPT !.req[k].timer = "cleared"] ELSE p

\* resolveFunc and rejectFunc of request k
resolveFunc(p, k, data) == Settle(ClearTimer(p, k), k, "resolved", data)

rejectFunc(p, k, err) == Settle(ClearTimer(p, k), k, "rejected", err)

\* a TypeError is thrown (a property of undefined is read): what was
\* running stops, with everything done so far left as it is
Throw(p) == [p EXCEPT !.threw = TRUE]

\* handleRequestQueue(): the head of the queue goes to the connection when
\* that is not busy; con.send(request) is part of it
RECURSIVE handleRequestQueue(_)
handleRequestQueue(p) ==
    IF p.queue = <<>> \/ p.con.busy THEN p
    ELSE LET request == Map_get(p.requests, p.queue[1])
             sending == [p EXCEPT !.con.pendingRequest = request, !.con.busy = TRUE]
         IN  IF p.con.connected /\ request = 0
             THEN Throw(sending)
             ELSE LET shifted == [sending EXCEPT !.queue = Tail(@),
                                                 !.con.onWire = p.con.connected]
                  IN  IF request = 0 THEN Throw(shifted)
                      ELSE handleRequestQueue([shifted EXCEPT !.req[request].sent = TRUE])

\* onResponse(request, responseData), request the object k
onResponse(p, k, responseData) ==
    IF ~Map_has(p.requests, p.req[k].id) THEN handleRequestQueue(p)
    ELSE LET deleted == [p EXCEPT !.requests = Map_delete(@, p.req[k].id)]
         IN  IF responseData.error
             THEN rejectFunc(deleted, k,
                             ErrorCodeMessage(responseData.code, responseData.message))
             ELSE handleRequestQueue(resolveFunc(deleted, k, <<responseData.result>>))

\* an error thrown out of a timer or a message handler is caught by no one
Uncaught(p) == [p EXCEPT !.threw = FALSE, !.uncaught = @ \/ p.threw]

\* the provider after its constructor: internalID is given no value
InitProvider ==
    /\ ModuleInit
    /\ call = [op |-> "RPC_WebSocket_Provider",
               internalID |-> Id("undefined", 0),
               requests |-> {},
               queue |-> <<>>,
               con |-> [busy |-> FALSE, pendingRequest |-> 0, connected |-> FALSE,
                        onWire |-> FALSE],
               req |-> [k \in 1..MaxRequests |-> NoRequest],
               made |-> 0,
               threw |-> FALSE,
               uncaught |-> FALSE]

\* provider.rpcRequest(method, params, timeout); an error thrown inside the
\* promise's executor rejects the promise
RpcRequest ==
    /\ call.op = "RPC_WebSocket_Provider"
    /\ call.made < MaxRequests
    /\ \E timeout \in {undefined, 0, 1000} :
          LET k == call.made + 1
              requestID == Increment(call.internalID)
              request == [id |-> requestID, sent |-> FALSE, timeout |-> timeout,
                          timer |-> IF timeout # undefined /\ timeout > 0
                                    THEN "armed" ELSE "none",
                          promise |-> "pending", reason |-> "", settled |-> 0]
              queued == [call EXCEPT !.internalID = requestID,
                                     !.made = k,
                                     !.req[k] = request,
                                     !.requests = Map_set(@, requestID, k),
                                     !.queue = Append(@, requestID)]
              handled == handleRequestQueue(queued)
          IN  call' = IF handled.threw
                      THEN [Settle(handled, k, "rejected", <<"TypeError">>)
                               EXCEPT !.threw = FALSE]
                      ELSE handled
    /\ UNCHANGED <<defaultMaxInflation, defaultCoder, ret, pc>>

\* the timer of request k ends
TimerFires ==
    /\ call.op = "RPC_WebSocket_Provider"
    /\ \E k \in 1..call.made :
          /\ call.req[k].timer = "armed"
          /\ call' = Uncaught(onResponse([call EXCEPT !.req[k].timer = "fired"],
                                         k, TimedOutResponse))
    /\ UNCHANGED <<defaultMaxInflation, defaultCoder, ret, pc>>

\* WebSocketConnectionManager.onOpen
OnOpen ==
    /\ call.op = "RPC_WebSocket_Provider"
    /\ ~call.con.connected
    /\ call' = [call EXCEPT !.con.connected = TRUE,
                            !.con.onWire = call.con.pendingRequest # 0]
    /\ UNCHANGED <<defaultMaxInflation, defaultCoder, ret, pc>>

\* WebSocketConnectionManager.onMessage with the answer to the payload that
\* was sent, and the "response" listener, onResponse
OnMessage ==
    /\ call.op = "RPC_WebSocket_Provider"
    /\ call.con.onWire
    /\ \E responseData \in NodeResponses :
          LET request == call.con.pendingRequest
              received == [call EXCEPT !.con.onWire = FALSE]
          IN  call' = IF request = 0 THEN received
                      ELSE Uncaught(onResponse(
                              [received EXCEPT !.con.busy = FALSE,
                                               !.con.pendingRequest = 0],
                              request, responseData))
    /\ UNCHANGED <<defaultMaxInflation, defaultCoder, ret, pc>>

NextProvider == RpcRequest \/ TimerFires \/ OnOpen \/ OnMessage

SpecProvider == InitProvider /\ [][NextProvider]_vars

\* the timer of request k ends in this step
Elapses(k) == call.req[k].timer = "armed" /\ call'.req[k].timer = "fired"

\* the promise of k, pending when its timer ends, is rejected with "Timed out"
TimeoutRejects(k) ==
    (Elapses(k) /\ call.req[k].promise = "pending") =>
        /\ call'.req[k].promise = "rejected"
        /\ call'.req[k].reason = ErrorCodeMessage(-1, "Timed out")

\* a settled promise stays as it is
StaysSettled(k) ==
    call.req[k].promise \in {"resolved", "rejected"} =>
        /\ call'.req[k].promise = call.req[k].promise
        /\ call'.req[k].reason = call.req[k].reason

\* the answer that comes for k after its timer ended changes no promise
LateAnswerInert(k) ==
    (/\ call.con.onWire
     /\ ~call'.con.onWire
     /\ call.con.pendingRequest = k
     /\ call.req[k].timer = "fired") =>
        \A j \in 1..MaxRequests : call'.req[j].promise = call.req[j].promise

\* a request made with no timeout, or with 0, has no timer
NoTimer(k) == call'.req[k].timeout \in {undefined, 0} => call'.req[k].timer = "none"

\* C20: a request made with a timeout > 0 whose promise is pending when the
\* timer ends is rejected then, with "Timed out", be it queued or sent; a
\* promise once settled stays as it is, and the answer that comes for a
\* request after its timer ended changes no promise; a request made with
\* no timeout or with 0 has no timer.
C20_Timeout ==
    [][\A k \in 1..MaxRequests :
          TimeoutRejects(k) /\ StaysSettled(k) /\ LateAnswerInert(k) /\ NoTimer(k)]_vars

\* two requests with a timeout, the first on the connection, the second in
\* the queue: the first was rejected when its timer ended, the timer of the
\* second has ended too, and its promise is pending still
C20_Witness ==
    /\ call.op = "RPC_WebSocket_Provider"
    /\ call.made = 2
    /\ call.req[1].promise = "rejected"
    /\ call.req[1].reason = ErrorCodeMessage(-1, "Timed out")
    /\ call.req[2].timer = "fired"
    /\ call.req[2].promise = "pending"
    /\ ~call.req[2].sent

-----------------------------------------------------------------------------
(* The provider with the life of its socket: the connection has a socket   *)
(* (con.ws) from connect() until it closes, and a reconnect timer          *)
(* (con.reconnectTimeout) from onClose until reconnect() or close().       *)

\* new Error("Provider was destroyed")
ProviderWasDestroyed == <<"Provider was destroyed">>

\* WebSocketConnectionManager.close(): the socket's listeners are removed
\* before it is closed, so nothing is heard from it any more
close(con) ==
    [con EXCEPT !.reconnectTimeout = FALSE, !.ws = FALSE, !.connected = FALSE,
                !.onWire = FALSE]

\* WebSocketConnectionManager.connect(): a new socket, not yet open
connect(con) ==
    [con EXCEPT !.reconnectTimeout = FALSE, !.ws = TRUE, !.connected = FALSE,
                !.onWire = FALSE]

\* this.requests.forEach(request => request.reject(...))
RECURSIVE forEachReject(_, _, _)
forEachReject(p, entries, err) ==
    IF entries = {} THEN p
    ELSE LET e == CHOOSE x \in entries : TRUE
         IN  forEachReject(rejectFunc(p, e.value, err), entries \ {e}, err)

\* the mutant of destroy that leaves the requests alone
destroy_noReject(p) ==
    [p EXCEPT !.con = close(@), !.queue = <<>>, !.destroyed = TRUE]

\* RPC_WebSocket_Provider.destroy()
destroy(p) ==
    forEachReject([p EXCEPT !.con = close(@), !.queue = <<>>, !.destroyed = TRUE],
                  p.requests, ProviderWasDestroyed)

\* the provider after its constructor, which calls connect() on the
\* connection
InitDestroy ==
    /\ ModuleInit
    /\ call = [op |-> "RPC_WebSocket_Provider",
               internalID |-> Id("undefined", 0),
               requests |-> {},
               queue |-> <<>>,
               con |-> [busy |-> FALSE, pendingRequest |-> 0, connected |-> FALSE,
                        onWire |-> FALSE, ws |-> TRUE, reconnectTimeout |-> FALSE],
               req |-> [k \in 1..MaxRequests |-> NoRequest],
               made |-> 0,
               threw |-> FALSE,
               uncaught |-> FALSE,
               destroyed |-> FALSE]

\* the socket opens: onOpen
SocketOpens == call.con.ws /\ OnOpen

\* the socket closes or fails to connect: onClose
OnClose ==
    /\ call.op = "RPC_WebSocket_Provider"
    /\ call.con.ws
    /\ call' = [call EXCEPT !.con.ws = FALSE, !.con.connected = FALSE,
                            !.con.onWire = FALSE, !.con.reconnectTimeout = TRUE]
    /\ UNCHANGED <<defaultMaxInflation, defaultCoder, ret, pc>>

\* the reconnect timer ends: reconnect()
Reconnect ==
    /\ call.op = "RPC_WebSocket_Provider"
    /\ call.con.reconnectTimeout
    /\ call' = [call EXCEPT !.con = connect(@)]
    /\ UNCHANGED <<defaultMaxInflation, defaultCoder, ret, pc>>

\* provider.destroy()
Destroy ==
    /\ call.op = "RPC_WebSocket_Provider"
    /\ ~call.destroyed
    /\ call' = destroy(call)
    /\ UNCHANGED <<defaultMaxInflation, defaultCoder, ret, pc>>

NextDestroy ==
    RpcRequest \/ TimerFires \/ SocketOpens \/ OnMessage \/ OnClose \/ Reconnect
        \/ Destroy

SpecDestroy == InitDestroy /\ [][NextDestroy]_vars

\* destroy() runs in this step
Destroyed == ~call.destroyed /\ call'.destroyed

\* every request pending before destroy() is rejected by it
DestroyRejects ==
    Destroyed =>
        \A k \in 1..call.made :
            call.req[k].promise = "pending" =>
                /\ call'.req[k].promise = "rejected"
                /\ call'.req[k].reason = ProviderWasDestroyed

\* destroy() leaves the queue empty and the connection without socket
DestroyCloses ==
    Destroyed =>
        /\ call'.queue = <<>>
        /\ ~call'.con.ws
        /\ ~call'.con.connected
        /\ ~call'.con.reconnectTimeout

\* after destroy() the connection never has a socket or a reconnect timer
StaysClosed ==
    call.destroyed =>
        /\ ~call'.con.ws
        /\ ~call'.con.connected
        /\ ~call'.con.reconnectTimeout

\* C21: destroy() rejects every request that was queued or in flight with
\* "Provider was destroyed", empties the queue, and leaves the connection
\* with no socket, not connected and with no reconnect timer, for ever.
C21_Destroy == [][DestroyRejects /\ DestroyCloses /\ StaysClosed]_vars

\* the provider was destroyed with one request on the connection and one in
\* the queue: the queued one was rejected, the other is pending still
C21_Witness ==
    /\ call.op = "RPC_WebSocket_Provider"
    /\ call.destroyed
    /\ call.made = 2
    /\ call.con.pendingRequest = 1
    /\ call.req[1].promise = "pending"
    /\ call.req[2].promise = "rejected"
    /\ call.req[2].reason = ProviderWasDestroyed

-----------------------------------------------------------------------------
(* The sendTransaction of src/unnamed/part_004, an earlier Transaction     *)
(* module: the same options, NonceCollisionErrorMessages and messages; its *)
(* wait for the receipt does not look at the transaction count.            *)

Part004_InitSend ==
    /\ ModuleInit
    /\ \E options \in TransactionSendingOptions, pending \in 0..1 :
          call = [op |-> "part_004.sendTransaction", options |-> options,
                  attempt |-> 0, nonce |-> undefined, startTime |-> 0,
                  now |-> 0, pending |-> pending,
                  thrown |-> NoThrow, throws |-> 0]

\* an attempt threw ex: the catch block of sendTransaction, and the
\* "return receipt" that comes after it inside the loop
Part004_Catch(frame, ex) ==
    LET swallowed == frame.options.nonce = undefined /\ isNonceError(ex)
    IN  /\ call' = [frame EXCEPT !.thrown = ex, !.throws = @ + 1]
        /\ pc' = "done"
        /\ ret' = IF swallowed THEN SendReturned(NoThrow, FALSE)
                  ELSE SendReturned(ex, FALSE)

\* while (!receipt): the loop is entered; sendFeeMarketTransaction or
\* sendGasPriceTransaction up to the nonce (an error of the fee request is
\* caught there)
Part004_BeginAttempt ==
    /\ pc = "call"
    /\ call.op = "part_004.sendTransaction"
    /\ call' = [call EXCEPT !.attempt = @ + 1, !.nonce = undefined]
    /\ pc' = "nonce"
    /\ UNCHANGED <<defaultMaxInflation, defaultCoder, ret>>

\* the nonce: getTransactionCount(accountAddress, "pending") when no nonce
\* was given
Part004_GetNonce ==
    /\ pc = "nonce"
    /\ call.op = "part_004.sendTransaction"
    /\ \/ /\ call' = [call EXCEPT !.nonce = IF call.options.nonce = undefined
                                            THEN call.pending
                                            ELSE call.options.nonce]
          /\ pc' = "send"
          /\ ret' = ret
       \/ /\ call.options.nonce = undefined
          /\ \E ex \in NodeErrors : Part004_Catch(call, ex)
    /\ UNCHANGED <<defaultMaxInflation, defaultCoder>>

\* sendSerializedTransaction up to the loop: sendRawTransaction
Part004_SendRawTransaction ==
    /\ pc = "send"
    /\ call.op = "part_004.sendTransaction"
    /\ \/ /\ call' = [call EXCEPT !.startTime = call.now]
          /\ pc' = "poll"
          /\ ret' = ret
       \/ \E ex \in NodeErrors : Part004_Catch(call, ex)
    /\ UNCHANGED <<defaultMaxInflation, defaultCoder>>

\* getTransactionReceipt answers, with the receipt or with none; with the
\* receipt the loops end and sendTransaction returns it
Part004_GetTransactionReceipt ==
    /\ pc = "poll"
    /\ call.op = "part_004.sendTransaction"
    /\ \E d \in Latencies, receipt \in BOOLEAN :
          /\ call.now + d <= MaxTime
          /\ call' = [call EXCEPT !.now = @ + d]
          /\ pc' = IF receipt THEN "done" ELSE "pause"
          /\ ret' = IF receipt THEN SendReturned(NoThrow, TRUE) ELSE ret
    /\ UNCHANGED <<defaultMaxInflation, defaultCoder>>

\* the timer of the pause fires, and the timeout is checked
Part004_CheckTimeout ==
    /\ pc = "pause"
    /\ call.op = "part_004.sendTransaction"
    /\ \E d \in Latencies :
          /\ call.now + PollPause + d <= MaxTime
          /\ LET frame == [call EXCEPT !.now = @ + PollPause + d] IN
             IF receiptWaitTimedOut(call.options, frame.now, call.startTime)
             THEN Part004_Catch(frame,
                                Error(TimedOutMessage(call.options.receiptWaitTimeout)))
             ELSE /\ call' = frame
                  /\ pc' = "poll"
                  /\ ret' = ret
    /\ UNCHANGED <<defaultMaxInflation, defaultCoder>>

\* the node: another transaction of the account comes in
Part004_NodeAdvances ==
    /\ call.op = "part_004.sendTransaction"
    /\ pc \in {"call", "nonce"}
    /\ call.pending < MaxCount
    /\ call' = [call EXCEPT !.pending = @ + 1]
    /\ UNCHANGED <<defaultMaxInflation, defaultCoder, ret, pc>>

Part004_NextSend ==
    \/ Part004_BeginAttempt
    \/ Part004_GetNonce
    \/ Part004_SendRawTransaction
    \/ Part004_GetTransactionReceipt
    \/ Part004_CheckTimeout
    \/ Part004_NodeAdvances

Part004_SpecSend == Part004_InitSend /\ [][Part004_NextSend]_vars

\* C22: in part_004, with no options.nonce, an attempt that fails with a
\* nonce collision is followed by a new attempt with a newly fetched nonce;
\* and a sendTransaction that returns without throwing returns a receipt.
C22_RetryAndReceipt ==
    [][/\ (Threw /\ call.options.nonce = undefined
                 /\ Collision(call'.thrown.message)) =>
              /\ pc' = "call"
              /\ ret' = NotRun
       /\ (pc = "nonce" /\ pc' = "send" /\ call.options.nonce = undefined) =>
              call'.nonce = call.pending
       /\ (pc' = "done" /\ ret'.err = NoThrow) => ret'.receipt
      ]_vars

\* the one attempt was refused with "nonce too low": sendTransaction has
\* returned, without a receipt and without an error
C22_Witness ==
    /\ pc = "done"
    /\ call.op = "part_004.sendTransaction"
    /\ call.options.nonce = undefined
    /\ call.attempt = 1
    /\ call.thrown = Error(Msg_nonce_too_low)
    /\ ret = SendReturned(NoThrow, FALSE)

-----------------------------------------------------------------------------
(* sendTransaction of types.ts with the node it talks to.  The node keeps, *)
(* for the account, the count of its mined transactions (call.latest); a   *)
(* transaction is mined when its nonce is that count, and then no other    *)
(* transaction with that nonce can be.  call.mined is the set of the raw   *)
(* transactions of call.sent that were mined.  The node answers what it    *)
(* knows: it takes no transaction whose nonce is below the count, and it   *)
(* has the receipt of a transaction exactly when that was mined.           *)

InitMined ==
    /\ ModuleInit
    /\ \E options \in TransactionSendingOptions, pending \in 0..1 :
          call = [op |-> "sendTransaction", options |-> options,
                  attempt |-> 0, nonce |-> undefined, startTime |-> 0,
                  nonceChanged |-> FALSE,
                  now |-> 0, pending |-> pending, latest |-> 0,
                  thrown |-> NoThrow, throws |-> 0, sent |-> <<>>,
                  mined |-> {}]

\* sendRawTransaction, answered by a node that takes the transaction only
\* when its nonce is not used up
Broadcast ==
    /\ SendRawTransaction
    /\ pc' = "poll" => call.nonce >= call.latest

\* getTransactionReceipt, answered with the receipt exactly when the
\* transaction sent last was mined
FetchReceipt ==
    /\ GetTransactionReceipt
    /\ (pc' = "done" /\ ret'.err = NoThrow) <=> Len(call.sent) \in call.mined

\* the raw transaction k of call.sent can be mined: it was not, and its
\* nonce is not used up
Minable(k) == k \notin call.mined /\ call.sent[k] >= call.latest

\* a block is mined that holds the account's next transaction: one of the
\* raw transactions sent, or a transaction of another sender (0)
Mine ==
    /\ call.op = "sendTransaction"
    /\ call.latest < MaxCount
    /\ \E k \in 0..Len(call.sent) :
          /\ k # 0 => (k \notin call.mined /\ call.sent[k] = call.latest)
          /\ call' = [call EXCEPT !.latest = @ + 1,
                                  !.pending = Max(@, call.latest + 1),
                                  !.mined = IF k = 0 THEN @ ELSE @ \cup {k}]
    /\ UNCHANGED <<defaultMaxInflation, defaultCoder, ret, pc>>

\* another sender hands the node a transaction of the account
OtherPending ==
    /\ call.op = "sendTransaction"
    /\ pc \in {"call", "nonce"}
    /\ call.pending < MaxCount
    /\ call' = [call EXCEPT !.pending = @ + 1]
    /\ UNCHANGED <<defaultMaxInflation, defaultCoder, ret, pc>>

NextMined ==
    \/ BeginAttempt
    \/ GetNonce
    \/ Broadcast
    \/ FetchReceipt
    \/ CheckTimeout
    \/ GetTransactionCount
    \/ Mine
    \/ OtherPending

SpecMined == InitMined /\ [][NextMined]_vars

\* "Error code " + code + " / " + message, as the provider and the client
\* make the error of an answer that holds one
Msg_Error_code_32000 ==
    <<"E", "r", "r", "o", "r", " ", "c", "o", "d", "e", " ", "-", "3", "2",
      "0", "0", "0", " ", "/", " ">>

Msg_already_known ==
    <<"a", "l", "r", "e", "a", "d", "y", " ", "k", "n", "o", "w", "n">>

\* sendRawTransaction through the WebSocket provider: the payload goes out
\* and the node takes the transaction, but the socket closes before the
\* answer is read; the request stays the connection's pendingRequest
SendRawUnanswered ==
    /\ pc = "send"
    /\ call.op = "sendTransaction"
    /\ call.nonce >= call.latest
    /\ call' = [call EXCEPT !.sent = Append(@, call.nonce)]
    /\ pc' = "resend"
    /\ UNCHANGED <<defaultMaxInflation, defaultCoder, ret>>

\* the connection is open again and onOpen sends the pendingRequest's
\* payload a second time; the node knows the transaction, or has mined it
\* and finds its nonce used up; the answer is an error, which
\* sendRawTransaction throws
OnOpenResend ==
    /\ pc = "resend"
    /\ call.op = "sendTransaction"
    /\ Catch(call, Error(Msg_Error_code_32000 \o
                         (IF call.sent[Len(call.sent)] < call.latest
                          THEN Msg_nonce_too_low
                          ELSE Msg_already_known)))
    /\ UNCHANGED <<defaultMaxInflation, defaultCoder>>

NextResend ==
    \/ BeginAttempt
    \/ GetNonce
    \/ Broadcast
    \/ SendRawUnanswered
    \/ OnOpenResend
    \/ FetchReceipt
    \/ CheckTimeout
    \/ GetTransactionCount
    \/ Mine
    \/ OtherPending

SpecResend == InitMined /\ [][NextResend]_vars

C25_Step ==
    /\ Cardinality(call'.mined) <= 1
    /\ (pc = "call" /\ pc' # pc /\ call.attempt >= 1) =>
          /\ call.options.nonce = undefined
          /\ Collision(call.thrown.message)
    /\ (Len(call'.sent) = Len(call.sent) + 1 /\ call.sent # <<>>) =>
          /\ call.mined = {}
          /\ \A k \in 1..Len(call.sent) : ~Minable(k)

\* C25: of the raw transactions one sendTransaction broadcasts at most one
\* is ever mined; an attempt after the first follows an attempt that failed
\* with a nonce collision, and when a further raw transaction is broadcast
\* none of the earlier ones was mined or can still be mined.
C25_NoDuplicate == [][C25_Step]_vars

\* the first transaction was mined while its request waited to be sent
\* again; the answer to the second sending was taken for a collision, and
\* the transaction sent with the next nonce was mined too
C25_Witness ==
    /\ call.op = "sendTransaction"
    /\ Len(call.sent) = 2
    /\ call.sent[2] = call.sent[1] + 1
    /\ call.thrown = Error(Msg_Error_code_32000 \o Msg_nonce_too_low)
    /\ call.mined = {1, 2}

=============================================================================
